---- MODULE Spec2Model ----
(***************************************************************************)
(* SOBERANIA-PHIGUARD: the bidirectional manipulation-risk guard of        *)
(* src/soberania_phiguard.py as a state machine.                           *)
(*                                                                         *)
(* Numbers.  The guard computes in floating point.  Here every real is a   *)
(* fixed-point integer in units of 1/SCALE (1e-4), products are truncated  *)
(* (\div).  Signal strengths are kept in tenths (2 = 0.2, 10 = 1.0) and    *)
(* multipliers in hundredths, so a risk delta (strength x multiplier x     *)
(* 0.1) is exact in units of 1e-4.  The clock is in whole seconds.         *)
(*                                                                         *)
(* Text.  A message text is represented by what the guard's regular        *)
(* expressions and marker-word sets extract from it: the number of         *)
(* findall matches per (language, category) and the three marker scores.   *)
(***************************************************************************)
EXTENDS Integers, Sequences, FiniteSets, TLC

\* ------------------------------------------------------------------ bounds
\* process_message calls per session (between construction/reset and reset)
MaxMsgs == 2
\* clock steps the environment may take
MaxTicks == 2
\* seconds per clock step
TickSeconds == 6
\* process_message calls per session in the long-session specification
MaxLong == 5
\* clock steps (of one decay window each) in the long-session specification
MaxLongTicks == 2
\* how far ahead of the oldest unsent attack the sender may pick
BlitzWindow == 2
\* word tokens per text in the language-detection specification
MaxTokens == 3
\* deltas handed to add_delta
MaxDeltas == 3
\* records handed to add_inventory
MaxRecords == 3
\* runs of the sanitizer in one process
MaxKills == 2
\* messages of a session watched for its first hand-off
MaxOnset == 3
\* messages of a flood, enough to overflow a channel's history
MaxFlood == 102
\* the most matches the patterns of one language find for one category
MaxHits == 6
\* messages a node processes over all its restarts, in the persistence
\* specification
MaxTurns == 3
\* recovery specification: seconds between two rounds of messages
RecoverSeconds == 1
\* ... rounds during which a lockdown may still be triggered
MaxEarly == 2
\* ... rounds after that
RecoverRounds == 36

\* --------------------------------------------------------------- constants
SCALE == 10^4
\* the float 1.0
ONE == SCALE
\* GAMMA = 1/(6*PHI) = 0.103005664791649
GAMMA == 1030
CLAMP_HIGH == SCALE - GAMMA
CLAMP_LOW == GAMMA
VOLATILE_DECAY == 6180
PERSISTENT_DECAY == GAMMA
V_CAP_HARM == 5000
V_CAP_MANIPULATION == 4000
V_CAP_COERCION == 4500
\* min(0.3, delta) of _compute_risk_delta
DELTA_CAP == 3000
\* elapsed / 10.0: the decay normalisation window, seconds
DECAY_WINDOW == 10
\* len(channel.history) > 100
HISTORY_CAP == 100
\* level thresholds of _compute_level
LEVEL_HIGH == 6000
LEVEL_MODERATE == 3000
\* time.time() at construction: any positive instant
Epoch == 1

Min(a, b) == IF a <= b THEN a ELSE b
Max(a, b) == IF a >= b THEN a ELSE b

\* ------------------------------------------------------------- enumerations
Language == {"es", "en", "pt", "auto"}
\* the languages MANIPULATION_PATTERNS has a table for, in Enum order
PatternLanguages == <<"es", "en", "pt">>
Direction == {"inbound", "outbound"}
\* the eight categories of every language table, in table order
Categories ==
  <<"urgency", "fear", "authority", "isolation", "flattery", "coercion",
    "misinformation", "surrender">>
CategorySet == {Categories[i] : i \in 1..Len(Categories)}

\* SIGNAL_MULTIPLIERS, in hundredths; SIGNAL_MULTIPLIERS.get(signal, 1.0)
SIGNAL_MULTIPLIERS ==
  [harm |-> 200, manipulation |-> 150, coercion |-> 200, flattery |-> 100,
   isolation |-> 150, urgency |-> 125, authority |-> 100,
   misinformation |-> 150, fear |-> 150, surrender |-> 175,
   uncertainty |-> 50, distress |-> 75]
Multiplier(signal) ==
  IF signal \in DOMAIN SIGNAL_MULTIPLIERS THEN SIGNAL_MULTIPLIERS[signal] ELSE 100

\* -------------------------------------------------------------------- texts
\* hits: <<language, category, n>> = n findall matches of that language's
\* patterns of that category; es/pt/en: marker-word scores of _detect_language.
Text(name, es, pt, en, hits) ==
  [name |-> name, es |-> es, pt |-> pt, en |-> en, hits |-> hits]

\* "Hola, tenemos 50kg de maiz disponible en el sector 3."
TClean == Text("clean", 3, 1, 0, {})
\* "Es urgente! Debes actuar ahora mismo antes de que sea tarde!"
TUrgent == Text("urgent", 3, 2, 0, {<<"es", "urgency", 3>>, <<"pt", "urgency", 1>>})
\* the blitz text of test_velocity_caps
TBlitz ==
  Text("blitz", 2, 1, 0,
       {<<"es", "urgency", 5>>, <<"es", "fear", 2>>, <<"es", "isolation", 3>>,
        <<"es", "coercion", 1>>, <<"pt", "urgency", 3>>})
\* "RENDIRSE es la unica opcion. Ya perdieron. Es inutil resistir. Entrega todo!"
TSurrender ==
  Text("surrender", 2, 0, 0, {<<"es", "urgency", 1>>, <<"es", "surrender", 3>>})
\* "The authorities have ordered you to surrender. You have no choice."
TEnglish ==
  Text("english", 0, 0, 3, {<<"en", "coercion", 1>>, <<"en", "surrender", 1>>})

\* an inventory message of send_inventory, f"{code}:{quantity}": "MAIZ:50"
TInventory == Text("inventory", 0, 0, 0, {})
\* a received message that holds one of PANIC_CODES: "XKILL"
TPanic == Text("panic", 0, 0, 0, {})

\* a text in which the Spanish patterns of every category match five times
TSaturated == Text("saturated", 3, 0, 0, {<<"es", Categories[i], 5>> : i \in 1..Len(Categories)})

\* the ten attacks of test_handoff_trigger, in list order
Attacks ==
  << Text("attack1", 1, 0, 0, {<<"es", "urgency", 3>>, <<"pt", "urgency", 1>>}),
     Text("attack2", 0, 0, 0, {<<"es", "urgency", 1>>}),
     Text("attack3", 1, 0, 0, {<<"es", "urgency", 1>>, <<"es", "coercion", 1>>}),
     Text("attack4", 1, 0, 0, {<<"es", "isolation", 3>>}),
     Text("attack5", 2, 0, 0, {<<"es", "urgency", 1>>, <<"es", "surrender", 3>>}),
     Text("attack6", 0, 1, 0,
          {<<"es", "urgency", 1>>, <<"es", "fear", 1>>, <<"es", "authority", 1>>}),
     Text("attack7", 2, 0, 0,
          {<<"es", "urgency", 1>>, <<"es", "authority", 1>>, <<"es", "isolation", 1>>,
           <<"pt", "urgency", 1>>, <<"pt", "authority", 1>>}),
     Text("attack8", 1, 1, 0, {<<"es", "coercion", 1>>}),
     Text("attack9", 1, 0, 0,
          {<<"es", "urgency", 1>>, <<"es", "fear", 1>>, <<"es", "authority", 1>>,
           <<"es", "coercion", 1>>, <<"pt", "urgency", 1>>, <<"pt", "fear", 1>>,
           <<"pt", "surrender", 1>>}),
     Text("attack10", 1, 0, 0,
          {<<"es", "urgency", 1>>, <<"es", "isolation", 1>>, <<"es", "surrender", 1>>}) >>

HitCount(text, lang, cat) ==
  IF \E h \in text.hits : h[1] = lang /\ h[2] = cat
    THEN (CHOOSE h \in text.hits : h[1] = lang /\ h[2] = cat)[3]
    ELSE 0

\* ---------------------------------------------------------------- analysis
\* the marker words of _detect_language
es_markers == {"el", "la", "de", "que", "en", "es", "por", "con", "para"}
pt_markers == {"o", "a", "de", "que", "em", "e", "por", "com", "para", "nao", "voce"}
en_markers == {"the", "is", "are", "of", "to", "and", "in", "that", "you"}

\* the word tokens texts are made of in the language-detection specification
Vocabulary == {"la", "La", "que", "o", "a", "the", "YOU", "maiz"}

\* text.lower(), on the tokens of the vocabulary
Lower(token) ==
  CASE token = "La" -> "la"
    [] token = "YOU" -> "you"
    [] OTHER -> token

\* set(re.findall(r'\b\w+\b', text_lower)) of a text given as its tokens
Words(tokens) == {Lower(tokens[i]) : i \in 1..Len(tokens)}

\* len(words & set(markers))
MarkerScore(words, markers) == Cardinality(words \cap markers)

\* a text given as its sequence of word tokens; no manipulation pattern
\* matches a text made of these tokens
TextOfTokens(tokens) ==
  [name |-> "tokens",
   es |-> MarkerScore(Words(tokens), es_markers),
   pt |-> MarkerScore(Words(tokens), pt_markers),
   en |-> MarkerScore(Words(tokens), en_markers),
   hits |-> {},
   tokens |-> tokens]

\* Portuguese wins its ties
detect_language_PortugueseOnTie(text) ==
  IF text.pt >= text.es /\ text.pt >= text.en THEN "pt"
  ELSE IF text.en > text.es THEN "en"
  ELSE "es"

\* _detect_language
detect_language(text) ==
  IF text.pt > text.es /\ text.pt > text.en THEN "pt"
  ELSE IF text.en > text.es THEN "en"
  ELSE "es"

\* a match counted as 0.1 instead of 0.2
PrimaryStrength_Tenth(text, language, cat) ==
  Min(10, HitCount(text, language, cat))

\* strength of one category after the primary-language pass, in tenths
\* (0 = the category is not in the dict)
PrimaryStrength(text, language, cat) ==
  Min(10, 2 * HitCount(text, language, cat))

\* a match of another language counted as 0.4
CrossStrength_Leak04(text, language, cat) ==
  IF \E i \in 1..Len(PatternLanguages) :
       /\ PatternLanguages[i] # language
       /\ HitCount(text, PatternLanguages[i], cat) > 0
    THEN Max(PrimaryStrength(text, language, cat), 4)
    ELSE PrimaryStrength(text, language, cat)

\* the cross-language pass overwrites what the primary pass found
CrossStrength_Overwrite(text, language, cat) ==
  IF \E i \in 1..Len(PatternLanguages) :
       /\ PatternLanguages[i] # language
       /\ HitCount(text, PatternLanguages[i], cat) > 0
    THEN 3
    ELSE PrimaryStrength(text, language, cat)

\* ... and after the cross-language pass over the other languages
CrossStrength(text, language, cat) ==
  IF \E i \in 1..Len(PatternLanguages) :
       /\ PatternLanguages[i] # language
       /\ HitCount(text, PatternLanguages[i], cat) > 0
    THEN Max(PrimaryStrength(text, language, cat), 3)
    ELSE PrimaryStrength(text, language, cat)

\* signals.get(cat, 0)
Get(signals, cat) == IF cat \in DOMAIN signals THEN signals[cat] ELSE 0

\* the thresholds compared with >= instead of >
signal_flags_NonStrict(signals) ==
  LET rules ==
        << <<"love_bombing", Get(signals, "flattery") >= 3 /\ Get(signals, "isolation") >= 2>>,
           <<"fear_mongering", Get(signals, "fear") >= 4 /\ Get(signals, "urgency") >= 3>>,
           <<"authority_coercion", Get(signals, "authority") >= 3 /\ Get(signals, "coercion") >= 3>>,
           <<"isolation_attempt", Get(signals, "isolation") >= 4>>,
           <<"disinfo_detected", Get(signals, "misinformation") >= 4>>,
           <<"surrender_pressure", Get(signals, "surrender") >= 3>> >>
      hit(r) == r[2]
      kept == SelectSeq(rules, hit)
  IN  [i \in 1..Len(kept) |-> kept[i][1]]

\* the flag list of _analyze_signals, in the order the code appends
signal_flags(signals) ==
  LET rules ==
        << <<"love_bombing", Get(signals, "flattery") > 3 /\ Get(signals, "isolation") > 2>>,
           <<"fear_mongering", Get(signals, "fear") > 4 /\ Get(signals, "urgency") > 3>>,
           <<"authority_coercion", Get(signals, "authority") > 3 /\ Get(signals, "coercion") > 3>>,
           <<"isolation_attempt", Get(signals, "isolation") > 4>>,
           <<"disinfo_detected", Get(signals, "misinformation") > 4>>,
           <<"surrender_pressure", Get(signals, "surrender") > 3>> >>
      hit(r) == r[2]
      kept == SelectSeq(rules, hit)
  IN  [i \in 1..Len(kept) |-> kept[i][1]]

\* _analyze_signals: (dict(signals), flags)
analyze_signals(text, language) ==
  LET populated == {c \in CategorySet : CrossStrength(text, language, c) > 0}
      signals == [c \in populated |-> CrossStrength(text, language, c)]
  IN  [signals |-> signals, flags |-> signal_flags(signals)]

RECURSIVE SumOver(_, _)
SumOver(signals, cats) ==
  IF cats = {} THEN 0
  ELSE LET c == CHOOSE x \in cats : TRUE
       IN  (signals[c] * Multiplier(c) * SCALE) \div 10000
             + SumOver(signals, cats \ {c})

\* Sum of strength * multiplier * 0.1 over the dict
RawDelta(signals) == SumOver(signals, DOMAIN signals)

\* the cap on a single message's delta left out
compute_risk_delta_Uncapped(signals) == RawDelta(signals)

\* the cap at 0.5 instead of DELTA_CAP
compute_risk_delta_CapHalf(signals) == Min(5000, RawDelta(signals))

\* _compute_risk_delta
compute_risk_delta(signals) == Min(DELTA_CAP, RawDelta(signals))

\* CRITICAL only strictly above the ceiling
compute_level_Strict(risk) ==
  IF risk > CLAMP_HIGH THEN "CRITICAL"
  ELSE IF risk >= LEVEL_HIGH THEN "HIGH"
  ELSE IF risk >= LEVEL_MODERATE THEN "MODERATE"
  ELSE "LOW"

\* _compute_level
compute_level(risk) ==
  IF risk >= CLAMP_HIGH THEN "CRITICAL"
  ELSE IF risk >= LEVEL_HIGH THEN "HIGH"
  ELSE IF risk >= LEVEL_MODERATE THEN "MODERATE"
  ELSE "LOW"

ToSet(seq) == {seq[i] : i \in 1..Len(seq)}

\* ----------------------------------------------------------------- channel
\* ChannelState()
NewChannel ==
  [risk |-> CLAMP_LOW, safety |-> ONE, uncertainty |-> 0, velocity |-> 0,
   last_update |-> 0, flags |-> {}, turn_count |-> 0, history |-> <<>>]

\* decay applied to a channel that was never updated
Decays_Always(channel) == TRUE

\* no decay at all
Decays_Never(channel) == FALSE

\* if channel.last_update > 0
Decays(channel) == channel.last_update > 0

\* the decay factor not limited to 1
DecayFactor_Unbounded(elapsed) == elapsed

\* min(1.0, elapsed / 10.0) as a numerator over DECAY_WINDOW
DecayFactor(elapsed) == Min(DECAY_WINDOW, elapsed)

\* the risk grows with the time elapsed instead of fading
DecayedRisk_Grow(risk, df) ==
  (risk * (SCALE * DECAY_WINDOW + VOLATILE_DECAY * df)) \div (SCALE * DECAY_WINDOW)

\* channel.risk *= (1 - VOLATILE_DECAY * decay_factor)
DecayedRisk(risk, df) ==
  (risk * (SCALE * DECAY_WINDOW - VOLATILE_DECAY * df)) \div (SCALE * DECAY_WINDOW)

\* the factor 0.1 of the time erosion left out
DecayedSafety_NoTenth(safety, df) ==
  Max(CLAMP_LOW, safety - (PERSISTENT_DECAY * df) \div DECAY_WINDOW)

\* max(CLAMP_LOW, channel.safety - PERSISTENT_DECAY * decay_factor * 0.1)
DecayedSafety(safety, df) ==
  Max(CLAMP_LOW, safety - (PERSISTENT_DECAY * df) \div (DECAY_WINDOW * 10))

\* the strength itself compared with the cap, without the factor 0.3
VelocityExceeded_Raw(signals) ==
  \E s \in DOMAIN signals :
     \/ s = "harm" /\ (signals[s] * SCALE) \div 10 > V_CAP_HARM
     \/ s = "manipulation" /\ (signals[s] * SCALE) \div 10 > V_CAP_MANIPULATION
     \/ s = "coercion" /\ (signals[s] * SCALE) \div 10 > V_CAP_COERCION

\* the velocity-cap loop over signals.items()
VelocityExceeded(signals) ==
  \E s \in DOMAIN signals :
     \/ s = "harm" /\ (signals[s] * 3 * SCALE) \div 100 > V_CAP_HARM
     \/ s = "manipulation" /\ (signals[s] * 3 * SCALE) \div 100 > V_CAP_MANIPULATION
     \/ s = "coercion" /\ (signals[s] * 3 * SCALE) \div 100 > V_CAP_COERCION

\* the ceiling left out
CappedRisk_NoCeiling(risk, risk_delta) == risk + risk_delta

\* min(CLAMP_HIGH, channel.risk + risk_delta)
CappedRisk(risk, risk_delta) == Min(CLAMP_HIGH, risk + risk_delta)

\* max(CLAMP_LOW, channel.risk)
FlooredRisk(risk) == Max(CLAMP_LOW, risk)

\* a message without signals gives some trust back
ErodedSafety_Regain(safety, risk_delta) ==
  IF risk_delta > 0
    THEN Max(CLAMP_LOW, safety - (risk_delta * GAMMA) \div SCALE)
    ELSE Min(ONE, safety + GAMMA)

\* max(CLAMP_LOW, channel.safety - risk_delta * GAMMA) when risk_delta > 0
ErodedSafety(safety, risk_delta) ==
  IF risk_delta > 0
    THEN Max(CLAMP_LOW, safety - (risk_delta * GAMMA) \div SCALE)
    ELSE safety

\* on overflow the newest entry is the one given up
Appended_DropNewest(history, entry) ==
  LET h == Append(history, entry)
  IN  IF Len(h) > HISTORY_CAP THEN SubSeq(h, 1, HISTORY_CAP) ELSE h

\* channel.history.append(entry); keep the last HISTORY_CAP entries
Appended(history, entry) ==
  LET h == Append(history, entry)
  IN  IF Len(h) > HISTORY_CAP
        THEN SubSeq(h, Len(h) - HISTORY_CAP + 1, Len(h))
        ELSE h

\* the set replaced by this message's flags
MergedFlags_Replace(old, flags) == ToSet(flags)

\* channel.flags.update(flags)
MergedFlags(old, flags) == old \cup ToSet(flags)

\* channel.turn_count += 1, from the count the caller has read
turn_stage(channel, turn_read) == [channel EXCEPT !.turn_count = turn_read + 1]

\* the time-based decay block of _update_channel at time t
decay_stage(channel, t) ==
  LET df == DecayFactor(t - channel.last_update)
  IN  IF Decays(channel)
        THEN [channel EXCEPT !.risk = DecayedRisk(@, df),
                             !.safety = DecayedSafety(@, df)]
        ELSE channel

\* _update_channel from "Apply risk delta" on, risk_read being the value of
\* channel.risk the caller has read: the channel after it and the dict it
\* returns
apply_stage(channel, risk_read, signals, flags, risk_delta, t) ==
  LET old_risk == risk_read
      risk2 == CappedRisk(risk_read, risk_delta)
      velocity == risk2 - old_risk
      velocity_exceeded == VelocityExceeded(signals)
      newflags == MergedFlags(channel.flags, flags)
      risk3 == FlooredRisk(risk2)
      safety2 == ErodedSafety(channel.safety, risk_delta)
      entry == [turn |-> channel.turn_count, risk |-> risk3, safety |-> safety2,
                signals |-> signals, flags |-> flags, timestamp |-> t]
  IN  [channel |->
         [risk |-> risk3, safety |-> safety2, uncertainty |-> channel.uncertainty,
          velocity |-> velocity, last_update |-> t, flags |-> newflags,
          turn_count |-> channel.turn_count,
          history |-> Appended(channel.history, entry)],
       result |->
         [risk |-> risk3, safety |-> safety2, velocity |-> velocity,
          velocity_exceeded |-> velocity_exceeded, flags |-> newflags]]

\* _update_channel at time t, run without interruption: the channel after it
\* and the dict it returns
update_channel(channel, signals, flags, risk_delta, t) ==
  LET decayed == decay_stage(turn_stage(channel, channel.turn_count), t)
  IN  apply_stage(decayed, decayed.risk, signals, flags, risk_delta, t)

\* -------------------------------------------------------------------- state
VARIABLES
  inbound,            \* self.inbound: ChannelState
  outbound,           \* self.outbound: ChannelState
  session_start,      \* self.session_start
  total_messages,     \* self.total_messages
  handoff_triggered,  \* self.handoff_triggered
  lockdown_active,    \* self.lockdown_active
  now,                \* the clock time.time() reads
  ret,                \* the last call and the value it returned
  pending,            \* the texts or calls a scripted sender has yet to make
  state_file,         \* self.state_file: "None" or a path
  document,           \* what the storage holds at that path
  primary_language,   \* self.primary_language
  threads,            \* the threads calling the guard, each with its position
  lock,               \* SoberaniaMeshBridge._lock: "free" or the thread holding it
  kill_switch,        \* the KillSwitch, its verifier and what its sanitizer has done
  orbit,              \* the OrbitDBSync, its sidecar and the threads using it
  starlink            \* the StarlinkBridge, its broker and its loop

guardVars ==
  <<inbound, outbound, session_start, total_messages, handoff_triggered,
    lockdown_active>>
storage == <<state_file, document>>
\* what the single-caller specifications leave alone
peripherals == <<kill_switch, orbit, starlink>>
fixed == <<primary_language, threads, lock, peripherals>>
vars == <<guardVars, now, ret, pending, storage, fixed>>

\* the calls process_message(text, direction, language) callers make
Calls ==
  { <<TClean, "inbound", "auto">>, <<TBlitz, "inbound", "es">>,
    <<TSurrender, "inbound", "auto">>, <<TEnglish, "outbound", "auto">> }

\* -------------------------------------------------------------- persistence
\* nothing at the path: os.path.exists(state_file) is false
NoDocument == [kind |-> "absent"]
\* a file that open() cannot read or json.load() cannot parse
Unparsable == [kind |-> "unparsable"]

\* the keys _load_state reads, in the order it reads them
LoadOrder ==
  <<"inbound.risk", "inbound.safety", "inbound.flags", "inbound.turn_count",
    "outbound.risk", "outbound.safety", "outbound.flags", "outbound.turn_count",
    "handoff_triggered", "lockdown_active">>
LoadKeys == {LoadOrder[i] : i \in 1..Len(LoadOrder)}

\* list(a_set): the elements in some order
RECURSIVE ListOf(_)
ListOf(S) ==
  IF S = {} THEN <<>>
  ELSE LET x == CHOOSE y \in S : TRUE IN <<x>> \o ListOf(S \ {x})

\* the dict _save_state dumps, by key path
StateDict(inb, outb, triggered, active, t) ==
  [kind |-> "json",
   fields |->
     [k \in LoadKeys \cup {"saved_at"} |->
        CASE k = "inbound.risk" -> inb.risk
          [] k = "inbound.safety" -> inb.safety
          [] k = "inbound.flags" -> ListOf(inb.flags)
          [] k = "inbound.turn_count" -> inb.turn_count
          [] k = "outbound.risk" -> outb.risk
          [] k = "outbound.safety" -> outb.safety
          [] k = "outbound.flags" -> ListOf(outb.flags)
          [] k = "outbound.turn_count" -> outb.turn_count
          [] k = "handoff_triggered" -> triggered
          [] k = "lockdown_active" -> active
          [] k = "saved_at" -> t]]

\* what can happen to the write of _save_state: no state_file, no write;
\* otherwise it succeeds, open() raises, or json.dump raises part-way
WriteOutcomes(file) ==
  IF file = "None" THEN {"written"} ELSE {"written", "open_raises", "dump_raises"}

\* the state saved before the call's hand-off has been recorded
save_state_BeforeHandoff(outcome, doc, inb, outb, triggered, active, t) ==
  IF state_file = "None" THEN doc
  ELSE CASE outcome = "written" -> StateDict(inb, outb, handoff_triggered, active, t)
         [] outcome = "open_raises" -> doc
         [] outcome = "dump_raises" -> Unparsable

\* if self.state_file: self._save_state() -- the document afterwards
save_state(outcome, doc, inb, outb, triggered, active, t) ==
  IF state_file = "None" THEN doc
  ELSE CASE outcome = "written" -> StateDict(inb, outb, triggered, active, t)
         [] outcome = "open_raises" -> doc
         [] outcome = "dump_raises" -> Unparsable

\* how many of the assignments of _load_state run before one raises
LoadedCount(doc) ==
  IF doc.kind # "json" THEN 0
  ELSE CHOOSE k \in 0..Len(LoadOrder) :
         /\ \A i \in 1..k : LoadOrder[i] \in DOMAIN doc.fields
         /\ k < Len(LoadOrder) => LoadOrder[k + 1] \notin DOMAIN doc.fields

\* position of a key in the order _load_state reads
KeyIndex(key) == CHOOSE i \in 1..Len(LoadOrder) : LoadOrder[i] = key

\* the value of an attribute after _load_state: the document's if its
\* assignment ran, the one __init__ had set otherwise
LoadedValue(doc, key, default) ==
  IF KeyIndex(key) <= LoadedCount(doc) THEN doc.fields[key] ELSE default

\* set(state[...]['flags']) if that assignment ran
LoadedFlags(doc, key) ==
  IF KeyIndex(key) <= LoadedCount(doc) THEN ToSet(doc.fields[key]) ELSE {}

\* the time of the save restored as the channel's last update
LoadedChannel_Stamped(doc, dir) ==
  [NewChannel EXCEPT
     !.risk = LoadedValue(doc, dir \o ".risk", NewChannel.risk),
     !.safety = LoadedValue(doc, dir \o ".safety", NewChannel.safety),
     !.flags = LoadedFlags(doc, dir \o ".flags"),
     !.turn_count = LoadedValue(doc, dir \o ".turn_count", NewChannel.turn_count),
     !.last_update = IF doc.kind = "json" /\ "saved_at" \in DOMAIN doc.fields
                       THEN doc.fields["saved_at"] ELSE 0]

\* a ChannelState() after the assignments of _load_state for one direction
LoadedChannel(doc, dir) ==
  [NewChannel EXCEPT
     !.risk = LoadedValue(doc, dir \o ".risk", NewChannel.risk),
     !.safety = LoadedValue(doc, dir \o ".safety", NewChannel.safety),
     !.flags = LoadedFlags(doc, dir \o ".flags"),
     !.turn_count = LoadedValue(doc, dir \o ".turn_count", NewChannel.turn_count)]

\* a call that ended with an exception propagating to the caller
Raised(op, exception) == [op |-> op, raised |-> exception]

\* SoberaniaPhiGuard.__init__ with state_file = None
Init ==
  /\ inbound = NewChannel
  /\ outbound = NewChannel
  /\ session_start = Epoch
  /\ total_messages = 0
  /\ handoff_triggered = FALSE
  /\ lockdown_active = FALSE
  /\ now = Epoch
  /\ ret = [op |-> "init"]
  /\ pending = <<>>
  /\ state_file = "None"
  /\ document = NoDocument
  /\ primary_language = "es"
  /\ threads = <<>>
  /\ lock = "free"
  /\ kill_switch = <<>>
  /\ orbit = <<>>
  /\ starlink = <<>>

\* SoberaniaPhiGuard(state_file = file): a guard constructed, in place of the
\* previous one, when the storage holds doc
Construct(file, doc) ==
  /\ state_file' = file
  /\ document' = doc
  /\ session_start' = now
  /\ total_messages' = 0
  /\ IF file # "None" /\ doc.kind # "absent"
       THEN /\ inbound' = LoadedChannel(doc, "inbound")
            /\ outbound' = LoadedChannel(doc, "outbound")
            /\ handoff_triggered' = LoadedValue(doc, "handoff_triggered", FALSE)
            /\ lockdown_active' = LoadedValue(doc, "lockdown_active", FALSE)
       ELSE /\ inbound' = NewChannel
            /\ outbound' = NewChannel
            /\ handoff_triggered' = FALSE
            /\ lockdown_active' = FALSE
  /\ ret' = [op |-> "init"]
  /\ UNCHANGED <<now, pending, fixed>>

\* a detection without a strict winner falls back to self.primary_language
ResolvedLanguage_Primary(text, language) ==
  IF language # "auto" THEN language
  ELSE IF \/ text.es > text.pt /\ text.es > text.en
          \/ text.pt > text.es /\ text.pt > text.en
          \/ text.en > text.es /\ text.en > text.pt
         THEN detect_language(text)
         ELSE primary_language

\* language = self._detect_language(text) if language == Language.AUTO
ResolvedLanguage(text, language) ==
  IF language = "auto" THEN detect_language(text) ELSE language

\* the lower of the two risks
BilateralRisk_Min(inb, outb) == Min(inb.risk, outb.risk)

\* max(self.inbound.risk, self.outbound.risk)
BilateralRisk(inb, outb) == Max(inb.risk, outb.risk)

\* min(self.inbound.safety, self.outbound.safety)
BilateralSafety(inb, outb) == Min(inb.safety, outb.safety)

\* hand-off only strictly above the ceiling
Handoff_Strict(bilateral_risk, velocity_exceeded) ==
  bilateral_risk > CLAMP_HIGH \/ velocity_exceeded

\* handoff = bilateral_risk >= CLAMP_HIGH or channel_result['velocity_exceeded']
Handoff(bilateral_risk, velocity_exceeded) ==
  bilateral_risk >= CLAMP_HIGH \/ velocity_exceeded

\* the session flag follows the message's hand-off
NextHandoffTriggered_Follow(handoff, triggered) == handoff

\* if handoff and not self.handoff_triggered: self.handoff_triggered = True
NextHandoffTriggered(handoff, triggered) ==
  IF handoff /\ ~triggered THEN TRUE ELSE triggered

\* the result reports the hand-off as the lockdown
BuildResult_LockdownFromHandoff(dir, lang, a, cr, b_risk, b_safety, level, handoff, active, t) ==
  [op |-> "process_message",
   direction |-> dir,
   language |-> lang,
   signals |-> a.signals,
   flags |-> a.flags,
   channel |-> [risk |-> cr.risk, safety |-> cr.safety, velocity |-> cr.velocity],
   bilateral |-> [risk |-> b_risk, safety |-> b_safety],
   level |-> level,
   handoff |-> handoff,
   lockdown |-> handoff,
   timestamp |-> t]

\* the result dict process_message builds from the language (lang), the
\* analysis (a), _update_channel's dict (cr) and the bilateral values
BuildResult(dir, lang, a, cr, b_risk, b_safety, level, handoff, active, t) ==
  [op |-> "process_message",
   direction |-> dir,
   language |-> lang,
   signals |-> a.signals,
   flags |-> a.flags,
   channel |-> [risk |-> cr.risk, safety |-> cr.safety, velocity |-> cr.velocity],
   bilateral |-> [risk |-> b_risk, safety |-> b_safety],
   level |-> level,
   handoff |-> handoff,
   lockdown |-> active,
   timestamp |-> t]

\* a message of either direction filed under the inbound channel
TargetOf_AlwaysInbound(direction) == "inbound"

\* "Select channel based on direction": self.inbound for Direction.INBOUND,
\* self.outbound otherwise
TargetOf(direction) == IF direction = "inbound" THEN "inbound" ELSE "outbound"

\* the channel object selected
Target(direction) == IF TargetOf(direction) = "inbound" THEN inbound ELSE outbound

\* process_message from the return of _update_channel on: lang is the
\* language resolved, a the analysis, u what _update_channel left and returned
finish_message(direction, lang, a, u) ==
  LET inb == IF TargetOf(direction) = "inbound" THEN u.channel ELSE inbound
      outb == IF TargetOf(direction) = "inbound" THEN outbound ELSE u.channel
      bilateral_risk == BilateralRisk(inb, outb)
      bilateral_safety == BilateralSafety(inb, outb)
      level == compute_level(bilateral_risk)
      handoff == Handoff(bilateral_risk, u.result.velocity_exceeded)
  IN  /\ inbound' = inb
      /\ outbound' = outb
      /\ handoff_triggered' = NextHandoffTriggered(handoff, handoff_triggered)
      /\ \E outcome \in WriteOutcomes(state_file) :
            /\ document' =
                 save_state(outcome, document, inb, outb,
                            NextHandoffTriggered(handoff, handoff_triggered),
                            lockdown_active, now)
            /\ ret' = IF outcome = "written"
                        THEN BuildResult(direction, lang, a, u.result,
                                         bilateral_risk, bilateral_safety, level,
                                         handoff, lockdown_active, now)
                        ELSE Raised("process_message", "OSError")

\* process_message(text, direction, language), run without interruption
process_message(text, direction, language) ==
  \* (a: the analysis, u: the outcome of _update_channel, each computed once)
  /\ \E a \in {analyze_signals(text, ResolvedLanguage(text, language))} :
     \E u \in {update_channel(Target(direction), a.signals, a.flags,
                              compute_risk_delta(a.signals), now)} :
        finish_message(direction, ResolvedLanguage(text, language), a, u)
  /\ total_messages' = total_messages + 1
  /\ UNCHANGED <<session_start, lockdown_active, now, state_file>>

ProcessMessage ==
  \E c \in Calls :
     /\ total_messages < MaxMsgs
     /\ process_message(c[1], c[2], c[3])
     /\ UNCHANGED <<pending, fixed>>

\* the channel re-created at the ceiling
LockdownRisk_Recreate(channel) == [NewChannel EXCEPT !.risk = CLAMP_HIGH]

\* self.inbound.risk = CLAMP_HIGH; self.outbound.risk = CLAMP_HIGH
LockdownRisk(channel) == [channel EXCEPT !.risk = CLAMP_HIGH]

\* the lockdown written to the state file at once
trigger_lockdown_Saving(reason) ==
  /\ lockdown_active' = TRUE
  /\ inbound' = LockdownRisk(inbound)
  /\ outbound' = LockdownRisk(outbound)
  /\ ret' = [op |-> "trigger_lockdown", status |-> "LOCKDOWN_ACTIVE",
             reason |-> reason, timestamp |-> now]
  /\ document' = save_state("written", document, LockdownRisk(inbound),
                            LockdownRisk(outbound), handoff_triggered, TRUE, now)
  /\ UNCHANGED <<session_start, total_messages, handoff_triggered, now, pending,
                 state_file, fixed>>

\* trigger_lockdown(reason)
trigger_lockdown(reason) ==
  /\ lockdown_active' = TRUE
  /\ inbound' = LockdownRisk(inbound)
  /\ outbound' = LockdownRisk(outbound)
  /\ ret' = [op |-> "trigger_lockdown", status |-> "LOCKDOWN_ACTIVE",
             reason |-> reason, timestamp |-> now]
  /\ UNCHANGED <<session_start, total_messages, handoff_triggered, now, pending, storage, fixed>>

TriggerLockdown == \E reason \in {"manual"} : trigger_lockdown(reason)

\* release puts the risk back to the baseline
AfterRelease_ResetRisk(channel) == [channel EXCEPT !.risk = CLAMP_LOW]

\* "Don't reset risk - let it decay naturally": release leaves a channel as it is
AfterRelease(channel) == channel

\* release_lockdown(auth_key)
release_lockdown(auth_key) ==
  /\ IF lockdown_active
       THEN /\ lockdown_active' = FALSE
            /\ inbound' = AfterRelease(inbound)
            /\ outbound' = AfterRelease(outbound)
            /\ ret' = [op |-> "release_lockdown", status |-> "LOCKDOWN_RELEASED"]
       ELSE /\ UNCHANGED <<lockdown_active, inbound, outbound>>
            /\ ret' = [op |-> "release_lockdown", status |-> "NO_LOCKDOWN"]
  /\ UNCHANGED <<session_start, total_messages, handoff_triggered, now, pending, storage, fixed>>

ReleaseLockdown == \E auth_key \in {"None", "key"} : release_lockdown(auth_key)

\* the dict get_status returns for a guard state at time t
Status(inb, outb, start, total, triggered, active, t) ==
  [op |-> "get_status",
   session_duration |-> t - start,
   total_messages |-> total,
   inbound |-> [risk |-> inb.risk, safety |-> inb.safety,
                turns |-> inb.turn_count, flags |-> inb.flags],
   outbound |-> [risk |-> outb.risk, safety |-> outb.safety,
                 turns |-> outb.turn_count, flags |-> outb.flags],
   bilateral |-> [risk |-> Max(inb.risk, outb.risk),
                  safety |-> Min(inb.safety, outb.safety),
                  level |-> compute_level(Max(inb.risk, outb.risk))],
   handoff_triggered |-> triggered,
   lockdown_active |-> active]

\* get_status()
get_status ==
  /\ ret' = Status(inbound, outbound, session_start, total_messages,
                   handoff_triggered, lockdown_active, now)
  /\ UNCHANGED <<guardVars, now, pending, storage, fixed>>

\* a reset that leaves the sticky hand-off flag as it is
reset_KeepSticky ==
  /\ inbound' = NewChannel
  /\ outbound' = NewChannel
  /\ session_start' = now
  /\ total_messages' = 0
  /\ lockdown_active' = FALSE
  /\ ret' = [op |-> "reset"]
  /\ UNCHANGED <<handoff_triggered, now, pending, storage, fixed>>

\* the message counter survives the reset
reset_KeepCount ==
  /\ inbound' = NewChannel
  /\ outbound' = NewChannel
  /\ session_start' = now
  /\ handoff_triggered' = FALSE
  /\ lockdown_active' = FALSE
  /\ ret' = [op |-> "reset"]
  /\ UNCHANGED <<total_messages, now, pending, storage, fixed>>

\* reset()
reset ==
  /\ inbound' = NewChannel
  /\ outbound' = NewChannel
  /\ session_start' = now
  /\ total_messages' = 0
  /\ handoff_triggered' = FALSE
  /\ lockdown_active' = FALSE
  /\ ret' = [op |-> "reset"]
  /\ UNCHANGED <<now, pending, storage, fixed>>

\* time passes between calls
Tick ==
  /\ now + TickSeconds <= Epoch + MaxTicks * TickSeconds
  /\ now' = now + TickSeconds
  /\ UNCHANGED <<guardVars, ret, pending, storage, fixed>>

Next ==
  \/ ProcessMessage
  \/ TriggerLockdown
  \/ ReleaseLockdown
  \/ get_status
  \/ reset
  \/ Tick

Spec == Init /\ [][Next]_vars

\* ------------------------------------------------------- scripted senders
Without(seq, i) == SubSeq(seq, 1, i - 1) \o SubSeq(seq, i + 1, Len(seq))

\* the sender sends one of the first `window` unsent texts, inbound, with the
\* Spanish hint (guard.process_message(attack, Direction.INBOUND,
\* Language.SPANISH) of test_handoff_trigger)
SendPending(window) ==
  \E i \in 1..Min(window, Len(pending)) :
     /\ process_message(pending[i], "inbound", "es")
     /\ pending' = Without(pending, i)
     /\ UNCHANGED fixed

\* ------------------------------------------------------------ long sessions
\* blitz messages until the ceiling is reached from the baseline, then clean
\* messages: MaxLong messages in all
AttackLen == (CLAMP_HIGH - CLAMP_LOW) \div DELTA_CAP + 1
LongScript == [i \in 1..MaxLong |-> IF i <= AttackLen THEN TBlitz ELSE TClean]

InitLong ==
  /\ inbound = NewChannel
  /\ outbound = NewChannel
  /\ session_start = Epoch
  /\ total_messages = 0
  /\ handoff_triggered = FALSE
  /\ lockdown_active = FALSE
  /\ now = Epoch
  /\ ret = [op |-> "init"]
  /\ pending = LongScript
  /\ state_file = "None"
  /\ document = NoDocument
  /\ primary_language = "es"
  /\ threads = <<>>
  /\ lock = "free"
  /\ kill_switch = <<>>
  /\ orbit = <<>>
  /\ starlink = <<>>

\* a whole decay window passes
LongTick ==
  /\ now + DECAY_WINDOW <= Epoch + MaxLongTicks * DECAY_WINDOW
  /\ now' = now + DECAY_WINDOW
  /\ UNCHANGED <<guardVars, ret, pending, storage, fixed>>

\* the script is sent in order
SendNext == SendPending(1)

NextLong ==
  \/ SendNext
  \/ TriggerLockdown
  \/ ReleaseLockdown
  \/ reset
  \/ LongTick

SpecLong == InitLong /\ [][NextLong]_vars

\* -------------------------------------------------------------- restarts
\* a node with a state file: messages, lockdowns, and restarts of the process
\* on the same file, intact or damaged
StateFile == "phiguard_state.json"

\* the calls the node makes over all its runs, in any order
PersistCalls ==
  << <<TSurrender, "inbound", "auto">>, <<TEnglish, "outbound", "auto">>,
     <<TBlitz, "inbound", "es">>, <<TClean, "outbound", "auto">> >>
PersistScript == SubSeq(PersistCalls, 1, Min(MaxTurns, Len(PersistCalls)))

InitPersist ==
  /\ inbound = NewChannel
  /\ outbound = NewChannel
  /\ session_start = Epoch
  /\ total_messages = 0
  /\ handoff_triggered = FALSE
  /\ lockdown_active = FALSE
  /\ now = Epoch
  /\ ret = [op |-> "init"]
  /\ pending = PersistScript
  /\ state_file = StateFile
  /\ document = NoDocument
  /\ primary_language = "es"
  /\ threads = <<>>
  /\ lock = "free"
  /\ kill_switch = <<>>
  /\ orbit = <<>>
  /\ starlink = <<>>

\* the node makes one of the calls it has yet to make
PersistMessage ==
  \E i \in 1..Len(pending) :
     /\ process_message(pending[i][1], pending[i][2], pending[i][3])
     /\ pending' = Without(pending, i)
     /\ UNCHANGED fixed

\* the process starts again on the same state file
Restart == Construct(state_file, document)

\* what damage can make of a stored document: unreadable, or one key lost
Damaged(doc) ==
  {Unparsable} \cup
  { [doc EXCEPT !.fields = [j \in (DOMAIN doc.fields) \ {k} |-> doc.fields[j]]] :
      k \in LoadKeys }

\* the process starts again on a state file damaged while it was down
RestartDamaged ==
  /\ document.kind = "json"
  /\ LoadKeys \subseteq DOMAIN document.fields
  /\ \E d \in Damaged(document) : Construct(state_file, d)

NextPersist ==
  \/ PersistMessage
  \/ TriggerLockdown
  \/ Restart
  \/ RestartDamaged

SpecPersist == InitPersist /\ [][NextPersist]_vars

\* ------------------------------------------------------------- kill switch
PANIC_CODES == {"XKILL", "PANIC99", "BORRAR", "QUEMAR"}

\* the panic codes callers pass: a code, the same in lower case, another word
PanicInputs == {"XKILL", "xkill", "HELLO"}

\* panic_code.upper(), on these inputs
Upper(code) == IF code = "xkill" THEN "XKILL" ELSE code

\* the signatures callers pass: none, an empty string, and detached
\* signatures named by what gpg makes of them: made by the admin key over the
\* message of this five-minute window (admin) or of an earlier one
\* (admin_stale), made by another key (other), not a signature (garbage),
\* one on which gpg.verify raises (unverifiable)
Signatures == {"None", "", "admin", "admin_stale", "other", "garbage", "unverifiable"}

AdminKey == "ADMIN"

\* self.gpg.verify(signature, message.encode())
gpg_verify(signature) ==
  CASE signature = "admin" -> [raises |-> FALSE, valid |-> TRUE, key_id |-> AdminKey]
    [] signature = "admin_stale" -> [raises |-> FALSE, valid |-> FALSE, key_id |-> AdminKey]
    [] signature = "other" -> [raises |-> FALSE, valid |-> TRUE, key_id |-> "OTHER"]
    [] signature = "garbage" -> [raises |-> FALSE, valid |-> FALSE, key_id |-> "None"]
    [] OTHER -> [raises |-> TRUE, valid |-> FALSE, key_id |-> "None"]

\* a known code is enough, signed or not
verify_panic_CodeOnly(ks, panic_code, signature) == Upper(panic_code) \in PANIC_CODES

\* PanicCodeVerifier.verify_panic
verify_panic(ks, panic_code, signature) ==
  IF Upper(panic_code) \notin PANIC_CODES THEN FALSE
  ELSE IF ks.admin_key_id = "None" THEN TRUE
  ELSE IF signature \in {"None", ""} THEN FALSE
  ELSE IF ~ks.gpg THEN FALSE
  ELSE /\ ~gpg_verify(signature).raises
       /\ gpg_verify(signature).valid
       /\ gpg_verify(signature).key_id = ks.admin_key_id

\* KillSwitch(admin_key_id, gnupghome, exit_after): admin_key_id "None" or a
\* key id; gpg: the verifier has a gnupg.GPG object
KillSwitches ==
  {[admin_key_id |-> k, gpg |-> g, exit_after |-> e, notified |-> 0, sanitized |-> 0,
    signed |-> FALSE, exited |-> FALSE] :
     k \in {"None", AdminKey}, g \in BOOLEAN, e \in BOOLEAN}

\* KillSwitch.trigger(panic_code, signature, mode): the kill switch after it
\* and what it gives back: "None", a report, or nothing as the process exits
kill_trigger(ks, panic_code, signature) ==
  IF ~verify_panic(ks, panic_code, signature)
    THEN [ks |-> ks, report |-> "None"]
    ELSE [ks |-> [ks EXCEPT !.notified = @ + 1,
                            !.sanitized = @ + 1,
                            !.signed = signature # "None",
                            !.exited = ks.exit_after],
          report |-> IF ks.exit_after THEN "exit" ELSE "report"]

\* ForensicSanitizer.execute(KillMode.STANDARD) erases ~/.soberania_mesh and
\* with it the guard's state file
Sanitized(doc) == NoDocument

InitKill ==
  /\ inbound = NewChannel
  /\ outbound = NewChannel
  /\ session_start = Epoch
  /\ total_messages = 0
  /\ handoff_triggered = FALSE
  /\ lockdown_active = FALSE
  /\ now = Epoch
  /\ ret = [op |-> "init"]
  /\ pending = <<>>
  /\ state_file = StateFile
  /\ document = NoDocument
  /\ primary_language = "es"
  /\ threads = <<>>
  /\ lock = "free"
  /\ kill_switch \in {ks \in KillSwitches : ks.gpg => ks.admin_key_id # "None"}
  /\ orbit = <<>>
  /\ starlink = <<>>

\* a caller triggers the kill switch
KillTrigger ==
  \E panic_code \in PanicInputs, signature \in Signatures :
     \E k \in {kill_trigger(kill_switch, panic_code, signature)} :
        /\ ~kill_switch.exited
        /\ kill_switch.sanitized < MaxKills
        /\ kill_switch' = k.ks
        /\ document' = IF k.report = "None" THEN document ELSE Sanitized(document)
        /\ ret' = [op |-> "trigger", panic_code |-> panic_code,
                   signature |-> signature, report |-> k.report]
        /\ UNCHANGED <<guardVars, now, pending, state_file, primary_language,
                       threads, lock, orbit, starlink>>

\* check_panic_in_message: the code the message holds, or "None"
check_panic_in_message(text) == IF text = TPanic THEN "XKILL" ELSE "None"

\* SoberaniaMeshBridge.process_inbound(message, sender_id, signature) with the
\* kill switch armed: a panic code that verifies ends the call (or the
\* process), any other message goes to the guard
BridgeInbound ==
  \E text \in {TPanic, TUrgent}, signature \in Signatures :
     \E k \in {kill_trigger(kill_switch, check_panic_in_message(text), signature)} :
        /\ ~kill_switch.exited
        /\ kill_switch.sanitized < MaxKills
        /\ total_messages < MaxMsgs
        /\ IF check_panic_in_message(text) # "None" /\ k.report # "None"
             THEN /\ kill_switch' = k.ks
                  /\ document' = Sanitized(document)
                  /\ ret' = [op |-> "process_inbound", status |-> "KILLED",
                             panic_code |-> check_panic_in_message(text),
                             signature |-> signature, report |-> k.report]
                  /\ UNCHANGED <<guardVars, now, state_file>>
             ELSE /\ process_message(text, "inbound", "auto")
                  /\ UNCHANGED kill_switch
        /\ UNCHANGED <<pending, primary_language, threads, lock, orbit, starlink>>

NextKill == KillTrigger \/ BridgeInbound

SpecKill == InitKill /\ [][NextKill]_vars

\* ------------------------------------------------------------ orbitdb sync
\* OrbitDBSync after __init__, with the bookkeeping of the model: posted is
\* what the sidecar has taken, accepted the records add_inventory has
\* returned, next_id the next record, adder and syncer the positions of the
\* thread calling add_inventory and of the background sync thread
NewOrbit ==
  [local_cache |-> {}, pending_writes |-> <<>>, posted |-> {}, accepted |-> {},
   next_id |-> 1,
   adder |-> [pc |-> "idle", record |-> 0],
   syncer |-> [pc |-> "idle", i |-> 0, still_pending |-> <<>>, synced |-> 0]]

InitOrbit ==
  /\ inbound = NewChannel
  /\ outbound = NewChannel
  /\ session_start = Epoch
  /\ total_messages = 0
  /\ handoff_triggered = FALSE
  /\ lockdown_active = FALSE
  /\ now = Epoch
  /\ ret = [op |-> "init"]
  /\ pending = <<>>
  /\ state_file = "None"
  /\ document = NoDocument
  /\ primary_language = "es"
  /\ threads = <<>>
  /\ lock = "free"
  /\ kill_switch = <<>>
  /\ orbit = NewOrbit
  /\ starlink = <<>>

OrbitFrame == UNCHANGED <<guardVars, now, pending, storage, primary_language, threads, lock, kill_switch, starlink>>

\* add_inventory up to the cache write: the record is built and cached
AddCache ==
  /\ orbit.adder.pc = "idle"
  /\ orbit.next_id <= MaxRecords
  /\ orbit' = [orbit EXCEPT !.local_cache = @ \cup {orbit.next_id},
                            !.next_id = @ + 1,
                            !.adder = [pc |-> "post", record |-> orbit.next_id]]
  /\ UNCHANGED ret
  /\ OrbitFrame

\* add_inventory: _sync_record(record) posts it, or fails
AddPost ==
  /\ orbit.adder.pc = "post"
  /\ \E posted \in BOOLEAN :
        IF posted
          THEN /\ orbit' = [orbit EXCEPT !.posted = @ \cup {orbit.adder.record},
                                         !.accepted = @ \cup {orbit.adder.record},
                                         !.adder = [pc |-> "idle", record |-> 0]]
               /\ ret' = [op |-> "add_inventory", record |-> orbit.adder.record]
          ELSE /\ orbit' = [orbit EXCEPT !.adder.pc = "queue"]
               /\ UNCHANGED ret
  /\ OrbitFrame

\* add_inventory: self._pending_writes.append(record) and the return
AddQueue ==
  /\ orbit.adder.pc = "queue"
  /\ orbit' = [orbit EXCEPT !.pending_writes = Append(@, orbit.adder.record),
                            !.accepted = @ \cup {orbit.adder.record},
                            !.adder = [pc |-> "idle", record |-> 0]]
  /\ ret' = [op |-> "add_inventory", record |-> orbit.adder.record]
  /\ OrbitFrame

\* sync_pending: check_connection; offline returns 0
SyncBegin ==
  /\ orbit.syncer.pc = "idle"
  /\ \E connected \in BOOLEAN :
        IF connected
          THEN /\ orbit' = [orbit EXCEPT !.syncer = [pc |-> "loop", i |-> 0,
                                                     still_pending |-> <<>>,
                                                     synced |-> 0]]
               /\ UNCHANGED ret
          ELSE /\ UNCHANGED orbit
               /\ ret' = [op |-> "sync_pending", synced |-> 0]
  /\ OrbitFrame

\* sync_pending: one turn of the loop over self._pending_writes, or its end
SyncRecord ==
  /\ orbit.syncer.pc = "loop"
  /\ IF orbit.syncer.i < Len(orbit.pending_writes)
       THEN \E posted \in BOOLEAN :
               \E record \in {orbit.pending_writes[orbit.syncer.i + 1]} :
                  orbit' = [orbit EXCEPT
                              !.posted = IF posted THEN @ \cup {record} ELSE @,
                              !.syncer.i = @ + 1,
                              !.syncer.synced = IF posted THEN @ + 1 ELSE @,
                              !.syncer.still_pending =
                                 IF posted THEN @ ELSE Append(@, record)]
       ELSE orbit' = [orbit EXCEPT !.syncer.pc = "assign"]
  /\ UNCHANGED ret
  /\ OrbitFrame

\* sync_pending: self._pending_writes = still_pending
StillPending(o) == o.syncer.still_pending

\* sync_pending: the assignment and the return
SyncAssign ==
  /\ orbit.syncer.pc = "assign"
  /\ orbit' = [orbit EXCEPT !.pending_writes = StillPending(orbit),
                            !.syncer = [pc |-> "idle", i |-> 0,
                                        still_pending |-> <<>>, synced |-> 0]]
  /\ ret' = [op |-> "sync_pending", synced |-> orbit.syncer.synced]
  /\ OrbitFrame

NextOrbit == AddCache \/ AddPost \/ AddQueue \/ SyncBegin \/ SyncRecord \/ SyncAssign

SpecOrbit == InitOrbit /\ [][NextOrbit]_vars

\* --------------------------------------------------------- starlink bridge
CHECK_INTERVAL == 30
SYNC_INTERVAL == 300
BACKOFF_MAX == 3600

\* the sync_interval start() is called with: the default, a shorter one, the
\* longest allowed wait, and one beyond it
SyncIntervals == {1, SYNC_INTERVAL, BACKOFF_MAX, 2 * BACKOFF_MAX}

\* doubling without the ceiling
FailedBackoff_Uncapped(backoff) == backoff * 2

\* min(backoff * 2, BACKOFF_MAX)
FailedBackoff(backoff) == IF backoff * 2 < BACKOFF_MAX THEN backoff * 2 ELSE BACKOFF_MAX

\* bridge_loop after one _sync_cycle: the new backoff, and the sleep
AfterCycle(sl, outcome) ==
  [sl EXCEPT !.backoff = IF outcome = "True" THEN sl.sync_interval ELSE FailedBackoff(@),
             !.last_cycle = outcome,
             !.payload = <<>>,
             !.pc = "sleep"]

\* StarlinkBridge after __init__ and start(sync_interval), the loop about to
\* run its first cycle; published and added are the bookkeeping of the model:
\* the deltas of the payloads the broker took, and the deltas given to add_delta
NewStarlink(sync_interval) ==
  [pending_deltas |-> <<>>, published |-> {}, added |-> {}, next_delta |-> 1,
   sync_interval |-> sync_interval, backoff |-> CHECK_INTERVAL, last_cycle |-> "None",
   payload |-> <<>>, pc |-> "status"]

InitStarlink ==
  /\ inbound = NewChannel
  /\ outbound = NewChannel
  /\ session_start = Epoch
  /\ total_messages = 0
  /\ handoff_triggered = FALSE
  /\ lockdown_active = FALSE
  /\ now = Epoch
  /\ ret = [op |-> "init"]
  /\ pending = <<>>
  /\ state_file = "None"
  /\ document = NoDocument
  /\ primary_language = "es"
  /\ threads = <<>>
  /\ lock = "free"
  /\ kill_switch = <<>>
  /\ orbit = <<>>
  /\ starlink \in {NewStarlink(sync_interval) : sync_interval \in SyncIntervals}

StarlinkFrame == UNCHANGED <<guardVars, now, ret, pending, storage, primary_language, threads, lock, kill_switch, orbit>>

\* add_delta, called by the bridge thread that parses inventory messages
AddDelta ==
  /\ starlink.next_delta <= MaxDeltas
  /\ starlink' = [starlink EXCEPT !.pending_deltas = Append(@, starlink.next_delta),
                                  !.added = @ \cup {starlink.next_delta},
                                  !.next_delta = @ + 1]
  /\ StarlinkFrame

\* _sync_cycle: the connectivity check, which may also raise
CycleStatus ==
  /\ starlink.pc = "status"
  /\ \E status \in {"usable", "offline", "raises"} :
        starlink' = CASE status = "usable" -> [starlink EXCEPT !.pc = "prepare"]
                      [] status = "offline" -> AfterCycle(starlink, "False")
                      [] OTHER -> AfterCycle(starlink, "raised")
  /\ StarlinkFrame

\* _sync_cycle: _prepare_payload copies the queue; nothing pending is a success
CyclePrepare ==
  /\ starlink.pc = "prepare"
  /\ starlink' = IF starlink.pending_deltas = <<>>
                   THEN AfterCycle(starlink, "True")
                   ELSE [starlink EXCEPT !.payload = starlink.pending_deltas,
                                         !.pc = "encrypt"]
  /\ StarlinkFrame

\* _sync_cycle: encryption and the MQTT connection, either of which may fail
CycleEncrypt ==
  /\ starlink.pc = "encrypt"
  /\ \E ready \in BOOLEAN :
        starlink' = IF ready THEN [starlink EXCEPT !.pc = "publish"]
                             ELSE AfterCycle(starlink, "False")
  /\ StarlinkFrame

\* _sync_cycle: publish_sync(encrypted)
CyclePublish ==
  /\ starlink.pc = "publish"
  /\ \E sent \in BOOLEAN :
        starlink' = IF sent
                     THEN [starlink EXCEPT
                             !.published = @ \cup {starlink.payload[k] :
                                                     k \in 1..Len(starlink.payload)},
                             !.pc = "clear"]
                     ELSE AfterCycle(starlink, "False")
  /\ StarlinkFrame

\* _sync_cycle: self._pending_deltas.clear() and the return
CycleClear ==
  /\ starlink.pc = "clear"
  /\ starlink' = AfterCycle([starlink EXCEPT !.pending_deltas = <<>>], "True")
  /\ StarlinkFrame

\* bridge_loop: time.sleep(backoff) is over
Sleep ==
  /\ starlink.pc = "sleep"
  /\ starlink' = [starlink EXCEPT !.pc = "status"]
  /\ StarlinkFrame

NextStarlink ==
  AddDelta \/ CycleStatus \/ CyclePrepare \/ CycleEncrypt \/ CyclePublish \/ CycleClear \/ Sleep

SpecStarlink == InitStarlink /\ [][NextStarlink]_vars

\* ------------------------------------------------------------------- onset
\* the first messages of a session in which trigger_lockdown is never called
OnsetCalls ==
  Calls \cup {<<TSaturated, "inbound", "es">>, <<TSaturated, "outbound", "auto">>}

OnsetMessage ==
  \E c \in OnsetCalls :
     /\ total_messages < MaxOnset
     /\ process_message(c[1], c[2], c[3])
     /\ UNCHANGED <<pending, fixed>>

NextOnset ==
  \/ OnsetMessage
  \/ ReleaseLockdown
  \/ Tick

SpecOnset == Init /\ [][NextOnset]_vars

\* ---------------------------------------------------------------- downtime
\* a node with a state file whose operator locks down, releases and resets,
\* whose process restarts on the file, and whose clock goes on meanwhile
DowntimeScript ==
  << <<TSurrender, "inbound", "auto">>, <<TClean, "inbound", "auto">>,
     <<TClean, "outbound", "auto">> >>

InitDowntime ==
  /\ inbound = NewChannel
  /\ outbound = NewChannel
  /\ session_start = Epoch
  /\ total_messages = 0
  /\ handoff_triggered = FALSE
  /\ lockdown_active = FALSE
  /\ now = Epoch
  /\ ret = [op |-> "init"]
  /\ pending = DowntimeScript
  /\ state_file = StateFile
  /\ document = NoDocument
  /\ primary_language = "es"
  /\ threads = <<>>
  /\ lock = "free"
  /\ kill_switch = <<>>
  /\ orbit = <<>>
  /\ starlink = <<>>

\* the node makes the next call of its script
DowntimeMessage ==
  /\ pending # <<>>
  /\ process_message(pending[1][1], pending[1][2], pending[1][3])
  /\ pending' = Tail(pending)
  /\ UNCHANGED fixed

\* time passes, the process up or down
Downtime ==
  /\ now + TickSeconds <= Epoch + MaxTicks * TickSeconds
  /\ now' = now + TickSeconds
  /\ UNCHANGED <<guardVars, ret, pending, storage, fixed>>

NextDowntime ==
  \/ DowntimeMessage
  \/ TriggerLockdown
  \/ ReleaseLockdown
  \/ reset
  \/ Restart
  \/ Downtime

SpecDowntime == InitDowntime /\ [][NextDowntime]_vars

\* ---------------------------------------------------------------- recovery
\* lockdowns and releases early in the session, and clean traffic in both
\* directions every RecoverSeconds
InitRecover ==
  /\ inbound = NewChannel
  /\ outbound = NewChannel
  /\ session_start = Epoch
  /\ total_messages = 0
  /\ handoff_triggered = FALSE
  /\ lockdown_active = FALSE
  /\ now = Epoch
  /\ ret = [op |-> "init"]
  /\ pending = <<>>
  /\ state_file = "None"
  /\ document = NoDocument
  /\ primary_language = "es"
  /\ threads = <<>>
  /\ lock = "free"
  /\ kill_switch = <<>>
  /\ orbit = <<>>
  /\ starlink = <<>>

EarlyLockdown ==
  /\ now <= Epoch + MaxEarly * RecoverSeconds
  /\ TriggerLockdown

EarlyRelease ==
  /\ now <= Epoch + MaxEarly * RecoverSeconds
  /\ ReleaseLockdown

\* a message without signals on a channel not yet written to at this instant
CleanMessage(direction) ==
  /\ (IF direction = "inbound" THEN inbound ELSE outbound).last_update < now
  /\ process_message(TClean, direction, "auto")
  /\ UNCHANGED <<pending, fixed>>

CleanInbound == CleanMessage("inbound")
CleanOutbound == CleanMessage("outbound")

\* time passes once both channels have had their message
RecoverTick ==
  /\ inbound.last_update = now
  /\ outbound.last_update = now
  /\ now < Epoch + (MaxEarly + RecoverRounds) * RecoverSeconds
  /\ now' = now + RecoverSeconds
  /\ UNCHANGED <<guardVars, ret, pending, storage, fixed>>

NextRecover ==
  \/ EarlyLockdown
  \/ EarlyRelease
  \/ CleanInbound
  \/ CleanOutbound
  \/ RecoverTick

\* both callers keep sending and time keeps passing
SpecRecover ==
  /\ InitRecover
  /\ [][NextRecover]_vars
  /\ WF_vars(CleanInbound)
  /\ WF_vars(CleanOutbound)
  /\ WF_vars(RecoverTick)

\* ------------------------------------------------------ concurrent callers
\* two threads, each making one call at the same instant: through the mesh
\* bridge (process_inbound, process_outbound, send_inventory), whose methods
\* take the bridge's lock, or straight to guard.process_message
ThreadIds == {"recv", "send"}

ThreadCalls ==
  {[entry |-> "process_inbound", text |-> x, direction |-> "inbound",
    language |-> "auto"] : x \in {TUrgent, TPanic}}
  \cup {[entry |-> "process_outbound", text |-> TUrgent, direction |-> "outbound",
          language |-> "auto"],
         [entry |-> "send_inventory", text |-> TInventory, direction |-> "outbound",
          language |-> "auto"]}
  \cup {[entry |-> "guard", text |-> TUrgent, direction |-> d, language |-> "es"] :
           d \in Direction}

\* a thread about to make its call; count, turn and risk are the values of
\* total_messages, channel.turn_count and channel.risk it has read
NewThread(call) ==
  [call |-> call, pc |-> "idle", count |-> 0, turn |-> 0, risk |-> 0, killed |-> FALSE]

\* the positions of a thread inside guard.process_message
InGuard == {"entered", "count_read", "counted", "turn_read", "turned", "risk_read"}

\* the call goes through a method of the bridge
ViaBridge(call) == call.entry # "guard"

InitThreads ==
  /\ inbound = NewChannel
  /\ outbound = NewChannel
  /\ session_start = Epoch
  /\ total_messages = 0
  /\ handoff_triggered = FALSE
  /\ lockdown_active = FALSE
  /\ now = Epoch
  /\ ret = [op |-> "init"]
  /\ pending = <<>>
  /\ state_file = "None"
  /\ document = NoDocument
  /\ primary_language = "es"
  /\ threads \in {[t \in ThreadIds |-> NewThread(f[t])] : f \in [ThreadIds -> ThreadCalls]}
  /\ lock = "free"
  /\ kill_switch = <<>>
  /\ orbit = <<>>
  /\ starlink = <<>>

\* the lock never makes a thread wait
LockAvailable_Always(t) == TRUE

\* with self._lock: the thread goes on when the lock is free
LockAvailable(t) == lock = "free"

\* the bridge method runs without taking the lock
LockTaken_Not(t) == lock

\* ... and holds it from then on
LockTaken(t) == t

\* the thread starts its call: a bridge method takes the lock and looks for
\* a panic code, which may end the call before the guard is reached
Enter ==
  \E t \in DOMAIN threads :
     /\ threads[t].pc = "idle"
     /\ IF ViaBridge(threads[t].call)
          THEN LockAvailable(t) /\ lock' = LockTaken(t)
          ELSE UNCHANGED lock
     /\ \E killed \in (IF threads[t].call.entry = "process_inbound"
                              /\ threads[t].call.text = TPanic
                          THEN BOOLEAN ELSE {FALSE}) :
           threads' = [threads EXCEPT ![t].killed = killed,
                                      ![t].pc = IF killed THEN "returned" ELSE "entered"]
     /\ UNCHANGED <<guardVars, now, ret, pending, storage, primary_language, peripherals>>

\* self.total_messages += 1: the read ...
LoadCount ==
  \E t \in DOMAIN threads :
     /\ threads[t].pc = "entered"
     /\ threads' = [threads EXCEPT ![t].pc = "count_read", ![t].count = total_messages]
     /\ UNCHANGED <<guardVars, now, ret, pending, storage, primary_language, lock, peripherals>>

\* ... and the write
StoreCount ==
  \E t \in DOMAIN threads :
     /\ threads[t].pc = "count_read"
     /\ total_messages' = threads[t].count + 1
     /\ threads' = [threads EXCEPT ![t].pc = "counted"]
     /\ UNCHANGED <<inbound, outbound, session_start, handoff_triggered,
                    lockdown_active, now, ret, pending, storage, primary_language, lock, peripherals>>

\* channel.turn_count += 1: the read ...
LoadTurn ==
  \E t \in DOMAIN threads :
     /\ threads[t].pc = "counted"
     /\ threads' = [threads EXCEPT ![t].pc = "turn_read",
                                   ![t].turn = Target(threads[t].call.direction).turn_count]
     /\ UNCHANGED <<guardVars, now, ret, pending, storage, primary_language, lock, peripherals>>

\* ... and the write
StoreTurn ==
  \E t \in DOMAIN threads :
     /\ threads[t].pc = "turn_read"
     /\ IF TargetOf(threads[t].call.direction) = "inbound"
          THEN inbound' = turn_stage(inbound, threads[t].turn) /\ UNCHANGED outbound
          ELSE outbound' = turn_stage(outbound, threads[t].turn) /\ UNCHANGED inbound
     /\ threads' = [threads EXCEPT ![t].pc = "turned"]
     /\ UNCHANGED <<session_start, total_messages, handoff_triggered, lockdown_active,
                    now, ret, pending, storage, primary_language, lock, peripherals>>

\* the decay block, then the read of channel.risk for old_risk and for
\* channel.risk + risk_delta
LoadRisk ==
  \E t \in DOMAIN threads :
     /\ threads[t].pc = "turned"
     /\ IF TargetOf(threads[t].call.direction) = "inbound"
          THEN inbound' = decay_stage(inbound, now) /\ UNCHANGED outbound
          ELSE outbound' = decay_stage(outbound, now) /\ UNCHANGED inbound
     /\ threads' = [threads EXCEPT
                      ![t].pc = "risk_read",
                      ![t].risk = decay_stage(Target(threads[t].call.direction), now).risk]
     /\ UNCHANGED <<session_start, total_messages, handoff_triggered, lockdown_active,
                    now, ret, pending, storage, primary_language, lock, peripherals>>

\* the write of channel.risk and the rest of process_message, to its return
FinishCall ==
  \E t \in DOMAIN threads :
     /\ threads[t].pc = "risk_read"
     /\ LET c == threads[t].call
            lang == ResolvedLanguage(c.text, c.language)
        IN  \E a \in {analyze_signals(c.text, lang)} :
            \E u \in {apply_stage(Target(c.direction), threads[t].risk, a.signals,
                                   a.flags, compute_risk_delta(a.signals), now)} :
               finish_message(c.direction, lang, a, u)
     /\ threads' = [threads EXCEPT ![t].pc = "returned"]
     /\ UNCHANGED <<session_start, total_messages, lockdown_active, now, pending,
                    state_file, primary_language, lock, peripherals>>

\* the call returns; leaving the with block of a bridge method frees the lock
Leave ==
  \E t \in DOMAIN threads :
     /\ threads[t].pc = "returned"
     /\ threads' = [threads EXCEPT ![t].pc = "done"]
     /\ lock' = IF lock = t THEN "free" ELSE lock
     /\ UNCHANGED <<guardVars, now, ret, pending, storage, primary_language, peripherals>>

NextThreads ==
  \/ Enter
  \/ LoadCount
  \/ StoreCount
  \/ LoadTurn
  \/ StoreTurn
  \/ LoadRisk
  \/ FinishCall
  \/ Leave

SpecThreads == InitThreads /\ [][NextThreads]_vars

\* ------------------------------------------------------------------ floods
\* a session of many messages: the peer keeps sending the same urgent text,
\* the node keeps answering with the same clean one
FloodCalls == {<<TUrgent, "inbound", "es">>, <<TClean, "outbound", "auto">>}

FloodMessage ==
  \E c \in FloodCalls :
     /\ total_messages < MaxFlood
     /\ process_message(c[1], c[2], c[3])
     /\ UNCHANGED <<pending, fixed>>

NextFlood == FloodMessage \/ reset

SpecFlood == Init /\ [][NextFlood]_vars

\* --------------------------------------------------------- signal analysis
\* one call on a guard that has processed nothing; the text is given by what
\* the pattern tables find in it for two categories: for each category the
\* number of matches of the Spanish patterns and of the English patterns
ProbePairs ==
  {<<"flattery", "isolation">>, <<"fear", "urgency">>, <<"authority", "coercion">>,
   <<"misinformation", "surrender">>}

HitProfiles == {0, 1, 2, 3, MaxHits} \X {0, 1, 2}

Probe(pair, p1, p2) ==
  Text("probe", 1, 0, 0,
       {h \in {<<"es", pair[1], p1[1]>>, <<"en", pair[1], p1[2]>>,
                <<"es", pair[2], p2[1]>>, <<"en", pair[2], p2[2]>>} : h[3] > 0})

ProbeTexts == {Probe(pair, p1, p2) : pair \in ProbePairs, p1 \in HitProfiles, p2 \in HitProfiles}

InitSignals ==
  /\ inbound = NewChannel
  /\ outbound = NewChannel
  /\ session_start = Epoch
  /\ total_messages = 0
  /\ handoff_triggered = FALSE
  /\ lockdown_active = FALSE
  /\ now = Epoch
  /\ ret = [op |-> "init"]
  /\ pending \in {<<c>> : c \in ProbeTexts \X Direction \X {"es", "en", "auto"}}
  /\ state_file = "None"
  /\ document = NoDocument
  /\ primary_language = "es"
  /\ threads = <<>>
  /\ lock = "free"
  /\ kill_switch = <<>>
  /\ orbit = <<>>
  /\ starlink = <<>>

\* the operator locks the node down before the message arrives
LockdownFirst ==
  /\ total_messages = 0
  /\ ~lockdown_active
  /\ TriggerLockdown

\* the caller makes the calls of its list, in order; the list is kept
ProbeCall ==
  /\ total_messages < Len(pending)
  /\ LET c == pending[total_messages + 1]
     IN  process_message(c[1], c[2], c[3])
  /\ UNCHANGED <<pending, fixed>>

NextSignals == ProbeCall \/ LockdownFirst

SpecSignals == InitSignals /\ [][NextSignals]_vars

\* ------------------------------------------------------ language detection
\* one call on a fresh guard: any text of up to MaxTokens tokens, either
\* direction, any language hint
TokenTexts ==
  UNION { {TextOfTokens(ts) : ts \in [1..n -> Vocabulary]} : n \in 0..MaxTokens }

InitDetect ==
  /\ inbound = NewChannel
  /\ outbound = NewChannel
  /\ session_start = Epoch
  /\ total_messages = 0
  /\ handoff_triggered = FALSE
  /\ lockdown_active = FALSE
  /\ now = Epoch
  /\ ret = [op |-> "init"]
  /\ pending \in {<<c>> : c \in TokenTexts \X Direction \X Language}
  /\ state_file = "None"
  /\ document = NoDocument
  /\ primary_language \in {"es", "en", "pt"}
  /\ threads = <<>>
  /\ lock = "free"
  /\ kill_switch = <<>>
  /\ orbit = <<>>
  /\ starlink = <<>>

\* the caller makes the calls of its list, in order; the list is kept
MakeCall ==
  /\ total_messages < Len(pending)
  /\ LET c == pending[total_messages + 1]
     IN  process_message(c[1], c[2], c[3])
  /\ UNCHANGED <<pending, fixed>>

NextDetect == MakeCall

SpecDetect == InitDetect /\ [][NextDetect]_vars

\* ------------------------------------------------------- sustained attack
\* test_handoff_trigger: the ten attacks, back to back
InitBlitz ==
  /\ inbound = NewChannel
  /\ outbound = NewChannel
  /\ session_start = Epoch
  /\ total_messages = 0
  /\ handoff_triggered = FALSE
  /\ lockdown_active = FALSE
  /\ now = Epoch
  /\ ret = [op |-> "init"]
  /\ pending = Attacks
  /\ state_file = "None"
  /\ document = NoDocument
  /\ primary_language = "es"
  /\ threads = <<>>
  /\ lock = "free"
  /\ kill_switch = <<>>
  /\ orbit = <<>>
  /\ starlink = <<>>

\* the attacks arrive in list order, up to BlitzWindow - 1 places early
SendAttack == SendPending(BlitzWindow)

NextBlitz == SendAttack

SpecBlitz == InitBlitz /\ [][NextBlitz]_vars

\* ===================================================================== claims
\* the channel record a direction addresses
Chan(direction, inb, outb) == IF direction = "inbound" THEN inb ELSE outb

\* a step of process_message: the only operation that counts a message
MessageStep == total_messages' = total_messages + 1
\* steps of the other operations: they return at the instant they are called
ResetStep == ret'.op = "reset" /\ now' = now
TriggerStep == ret'.op = "trigger_lockdown" /\ now' = now
ReleaseStep == ret'.op = "release_lockdown" /\ now' = now
StatusStep == ret'.op = "get_status" /\ now' = now

C2_HandoffSticky ==
  [][ /\ handoff_triggered => (handoff_triggered' \/ ResetStep)
      /\ ResetStep => ~handoff_triggered' ]_vars

\* a zero-signal message after the risk has decayed back to LOW, the flag still set
C2_StillTriggeredAtLow ==
  /\ handoff_triggered
  /\ ret.op = "process_message"
  /\ DOMAIN ret.signals = {}
  /\ ~ret.handoff
  /\ ret.level = "LOW"

\* C3: within a session a channel's flag set never loses an element, and a
\* message leaves the addressed channel's set equal to the previous set
\* united with the message's flags.
C3_FlagsGrow ==
  [][ ~ResetStep =>
        /\ inbound.flags \subseteq inbound'.flags
        /\ outbound.flags \subseteq outbound'.flags
        /\ MessageStep =>
             Chan(ret'.direction, inbound', outbound').flags
               = Chan(ret'.direction, inbound, outbound).flags \cup ToSet(ret'.flags)
    ]_vars

\* a second message added its flag to the one the first had left
C3_TwoFlags ==
  /\ ret.op = "process_message"
  /\ ret.flags = <<"surrender_pressure">>
  /\ inbound.flags = {"isolation_attempt", "surrender_pressure"}

\* Sum of strength x multiplier x 0.1 with the multipliers of the table written out
C4_WeightedSum(signals) ==
  Get(signals, "harm") * 200 + Get(signals, "manipulation") * 150
  + Get(signals, "coercion") * 200 + Get(signals, "flattery") * 100
  + Get(signals, "isolation") * 150 + Get(signals, "urgency") * 125
  + Get(signals, "authority") * 100 + Get(signals, "misinformation") * 150
  + Get(signals, "fear") * 150 + Get(signals, "surrender") * 175
  + Get(signals, "uncertainty") * 50 + Get(signals, "distress") * 75

\* C4: for any single process_message call the risk delta is
\* min(0.3, sum of strength x multiplier x 0.1), lies in [0, 0.3], and the
\* addressed channel's risk rises by at most 0.3.
C4_DeltaCap ==
  [][ MessageStep =>
        LET delta == compute_risk_delta(ret'.signals)
        IN  /\ delta = Min(3000, C4_WeightedSum(ret'.signals))
            /\ 0 <= delta /\ delta <= 3000
            /\ Chan(ret'.direction, inbound', outbound').risk
                 - Chan(ret'.direction, inbound, outbound).risk <= 3000
    ]_vars

\* a message whose weighted sum is above the cap moved the risk by exactly the cap
C4_CapEngaged ==
  /\ ret.op = "process_message"
  /\ C4_WeightedSum(ret.signals) > 3000
  /\ ret.channel.velocity = 3000

\* strength x 0.3 above the fixed cap of harm, manipulation or coercion
C5_VelocityExceeded(signals) ==
  \/ Get(signals, "harm") * 300 > 5000
  \/ Get(signals, "manipulation") * 300 > 4000
  \/ Get(signals, "coercion") * 300 > 4500

\* C5: the returned handoff is true exactly when, after the update,
\* max(inbound.risk, outbound.risk) >= CLAMP_HIGH or the velocity cap was
\* exceeded; handoff_triggered becomes true with it and is otherwise unchanged.
C5_HandoffCondition ==
  [][ MessageStep =>
        /\ ret'.handoff =
             (\/ Max(inbound'.risk, outbound'.risk) >= CLAMP_HIGH
              \/ C5_VelocityExceeded(ret'.signals))
        /\ handoff_triggered' = (handoff_triggered \/ ret'.handoff)
    ]_vars

\* the hand-off raised by accumulated inbound messages alone
C5_HandoffByMessages ==
  /\ ret.op = "process_message"
  /\ ret.handoff
  /\ handoff_triggered
  /\ ~lockdown_active
  /\ outbound.risk = CLAMP_LOW
  /\ inbound.risk = CLAMP_HIGH

\* C6: trigger_lockdown sets both risks to CLAMP_HIGH and lockdown_active to
\* true and leaves safety, flags, turn_count and history of both channels,
\* total_messages and handoff_triggered unchanged.
C6_TriggerLockdown ==
  [][ TriggerStep =>
        /\ inbound'.risk = CLAMP_HIGH
        /\ outbound'.risk = CLAMP_HIGH
        /\ lockdown_active'
        /\ \A f \in {"safety", "flags", "turn_count", "history"} :
              /\ inbound'[f] = inbound[f]
              /\ outbound'[f] = outbound[f]
        /\ UNCHANGED <<total_messages, handoff_triggered>>
    ]_vars

\* lockdown triggered on a channel that has processed messages and holds flags
C6_LockdownAfterTraffic ==
  /\ ret.op = "trigger_lockdown"
  /\ lockdown_active
  /\ inbound.turn_count > 0
  /\ inbound.flags # {}
  /\ inbound.safety < ONE
  /\ ~handoff_triggered
  /\ inbound.history[Len(inbound.history)].risk < CLAMP_HIGH

\* C7: release_lockdown sets lockdown_active to false and leaves the risks
\* and every other field as they were; it returns LOCKDOWN_RELEASED when
\* lockdown was active and NO_LOCKDOWN otherwise, whatever the auth_key.
C7_ReleaseLockdown ==
  [][ ReleaseStep =>
        /\ ~lockdown_active'
        /\ UNCHANGED <<inbound, outbound, session_start, total_messages,
                       handoff_triggered>>
        /\ ret'.status = IF lockdown_active THEN "LOCKDOWN_RELEASED" ELSE "NO_LOCKDOWN"
    ]_vars

\* Scenario D: released, and the risks still at the ceiling
C7_ReleasedAtCeiling ==
  /\ ret.op = "release_lockdown"
  /\ ret.status = "LOCKDOWN_RELEASED"
  /\ ~lockdown_active
  /\ inbound.risk = CLAMP_HIGH
  /\ outbound.risk = CLAMP_HIGH

\* C8: process_message never changes lockdown_active, which changes only in
\* trigger_lockdown, release_lockdown and reset; the result's lockdown field
\* is its current value.
C8_LockdownOnlyExplicit ==
  [][ /\ lockdown_active' # lockdown_active =>
           TriggerStep \/ ReleaseStep \/ ResetStep
      /\ MessageStep =>
           /\ lockdown_active' = lockdown_active
           /\ ret'.lockdown = lockdown_active'
    ]_vars

\* a hand-off at critical bilateral risk that did not activate lockdown
C8_HandoffWithoutLockdown ==
  /\ ret.op = "process_message"
  /\ ret.handoff
  /\ ret.level = "CRITICAL"
  /\ ~ret.lockdown
  /\ ~lockdown_active

\* the intervention level of a bilateral risk
C9_Level(risk) ==
  CASE risk >= CLAMP_HIGH -> "CRITICAL"
    [] risk < CLAMP_HIGH /\ risk >= 6000 -> "HIGH"
    [] risk < 6000 /\ risk >= 3000 -> "MODERATE"
    [] risk < 3000 -> "LOW"

\* C9: process_message returns bilateral risk = max of the two risks,
\* bilateral safety = min of the two safeties and the level of that risk, of
\* the post-update state; get_status reports the same and modifies nothing.
C9_Bilateral ==
  [][ /\ MessageStep =>
           /\ ret'.bilateral.risk = Max(inbound'.risk, outbound'.risk)
           /\ ret'.bilateral.safety = Min(inbound'.safety, outbound'.safety)
           /\ ret'.level = C9_Level(ret'.bilateral.risk)
      /\ StatusStep =>
           /\ ret'.bilateral.risk = Max(inbound.risk, outbound.risk)
           /\ ret'.bilateral.safety = Min(inbound.safety, outbound.safety)
           /\ ret'.bilateral.level = C9_Level(ret'.bilateral.risk)
           /\ UNCHANGED guardVars
    ]_vars

\* an outbound message reported while the inbound channel carries the higher
\* risk and the lower safety
C9_WorseDirectionWins ==
  /\ ret.op = "process_message"
  /\ ret.direction = "outbound"
  /\ inbound.risk > outbound.risk
  /\ inbound.safety < outbound.safety
  /\ ret.bilateral.risk = inbound.risk
  /\ ret.level = "MODERATE"

\* C10: from a fresh guard the ten attacks, sent back to back, drive the
\* bilateral risk to CLAMP_HIGH or above and set handoff_triggered.
C10_BlitzHandoff ==
  pending = <<>> =>
    /\ handoff_triggered
    /\ Max(inbound.risk, outbound.risk) >= CLAMP_HIGH

\* all ten attacks sent, the last one returning the hand-off
C10_AllSent ==
  /\ pending = <<>>
  /\ total_messages = Len(Attacks)
  /\ inbound.turn_count = Len(Attacks)
  /\ ret.op = "process_message"
  /\ ret.handoff

\* the risk of the channel a message addresses if the message came `gap`
\* seconds after the channel's last update
C11_RiskAfter(ch, signals, flags, gap) ==
  update_channel(ch, signals, flags, compute_risk_delta(signals),
                 ch.last_update + gap).channel.risk

\* C11: for the same channel state and the same message, the risk after the
\* message is non-increasing in the time elapsed since the previous message
\* of that direction: back-to-back gives at least the risk a gap gives, up to
\* and past the 10 s window.
C11_DecayLaw ==
  [][ MessageStep =>
        LET ch == Chan(ret'.direction, inbound, outbound)
            after(gap) == C11_RiskAfter(ch, ret'.signals, ret'.flags, gap)
        IN  ch.last_update > 0 =>
              /\ Chan(ret'.direction, inbound', outbound').risk
                   = after(now - ch.last_update)
              /\ Chan(ret'.direction, inbound', outbound').risk <= after(0)
              /\ \A g1, g2 \in 0..(2 * DECAY_WINDOW) :
                    g1 <= g2 => after(g1) >= after(g2)
    ]_vars

\* a second inbound message a decay window or more after the first, ending
\* strictly below what it would have reached back-to-back
C11_GapLowered ==
  LET h == inbound.history
      n == Len(h)
  IN  /\ ret.op = "process_message"
      /\ ret.direction = "inbound"
      /\ n >= 2
      /\ h[n].timestamp - h[n - 1].timestamp >= DECAY_WINDOW
      /\ DOMAIN h[n].signals # {}
      /\ h[n].risk < Min(CLAMP_HIGH, h[n - 1].risk + compute_risk_delta(h[n].signals))

\* the state of a guard just constructed without stored state, or just reset
FreshGuard ==
  /\ inbound = NewChannel
  /\ outbound = NewChannel
  /\ total_messages = 0
  /\ ~handoff_triggered
  /\ ~lockdown_active

\* texts matching the Spanish patterns of any non-empty set of categories,
\* once or five times each (five matches saturate a strength at 1.0)
C12_Texts ==
  { Text("t", 1, 0, 0, {<<"es", c, n>> : c \in cats}) :
      cats \in (SUBSET CategorySet) \ {{}}, n \in {1, 5} }

\* C12: on a fresh guard one message with at least one populated signal
\* takes the addressed channel's risk strictly above CLAMP_LOW and to at most
\* CLAMP_LOW + 0.3, returns handoff false and leaves handoff_triggered false,
\* however many categories and matches it has.
C12_SingleMessage ==
  [][ FreshGuard =>
        /\ (MessageStep /\ DOMAIN ret'.signals # {}) =>
              LET ch == Chan(ret'.direction, inbound', outbound')
              IN  /\ ch.risk > CLAMP_LOW
                  /\ ch.risk <= CLAMP_LOW + 3000
                  /\ ~ret'.handoff
                  /\ ~handoff_triggered'
        /\ \A t \in C12_Texts :
              LET a == analyze_signals(t, "es")
                  u == update_channel(inbound, a.signals, a.flags,
                                      compute_risk_delta(a.signals), now)
              IN  /\ DOMAIN a.signals # {}
                  /\ u.channel.risk > CLAMP_LOW
                  /\ u.channel.risk <= CLAMP_LOW + 3000
                  /\ ~Handoff(BilateralRisk(u.channel, outbound),
                              u.result.velocity_exceeded)
    ]_vars

\* the first message of a session, four categories at once, moved the risk by
\* exactly the cap and raised no hand-off
C12_FirstMessageAtCap ==
  /\ ret.op = "process_message"
  /\ total_messages = 1
  /\ inbound.turn_count = 1
  /\ Cardinality(DOMAIN ret.signals) >= 4
  /\ inbound.risk = CLAMP_LOW + 3000
  /\ ~ret.handoff
  /\ ~handoff_triggered

\* C13: on a fresh guard an inbound message with an empty signal map has risk
\* delta 0 and an empty flag list, leaves the inbound risk at CLAMP_LOW and
\* the safety at 1.0, and returns level LOW and handoff false.
C13_CleanFirstMessage ==
  [][ (FreshGuard /\ MessageStep /\ ret'.direction = "inbound"
         /\ DOMAIN ret'.signals = {}) =>
        /\ compute_risk_delta(ret'.signals) = 0
        /\ ret'.channel.velocity = 0
        /\ ret'.flags = <<>>
        /\ inbound'.flags = {}
        /\ inbound'.risk = CLAMP_LOW
        /\ ret'.channel.risk = CLAMP_LOW
        /\ inbound'.safety = ONE
        /\ ret'.channel.safety = ONE
        /\ ret'.level = "LOW"
        /\ ~ret'.handoff
    ]_vars

\* Scenario A some time after construction: the clean text was the first message
C13_CleanProcessed ==
  /\ ret.op = "process_message"
  /\ ret.direction = "inbound"
  /\ ret.language = "es"
  /\ DOMAIN ret.signals = {}
  /\ total_messages = 1
  /\ inbound.turn_count = 1
  /\ inbound.last_update > session_start
  /\ outbound = NewChannel
  /\ ret.level = "LOW"

\* how many of the marker words occur among the lowercased tokens
C14_Count(tokens, markers) ==
  Cardinality({m \in markers : \E i \in 1..Len(tokens) : Lower(tokens[i]) = m})

\* C14: with language = auto the resolved language is Portuguese if pt > es
\* and pt > en, otherwise English if en > es, otherwise Spanish, es, pt and
\* en being the numbers of distinct lowercase tokens in the marker sets (so
\* zero overlap and a top tie with Spanish give Spanish, pt = en > es gives
\* English); with any other hint the result's language is the hint.
C14_LanguageRule ==
  [][ MessageStep =>
        LET c == pending[total_messages + 1]
            tokens == c[1].tokens
            es == C14_Count(tokens,
                    {"el", "la", "de", "que", "en", "es", "por", "con", "para"})
            pt == C14_Count(tokens,
                    {"o", "a", "de", "que", "em", "e", "por", "com", "para",
                     "nao", "voce"})
            en == C14_Count(tokens,
                    {"the", "is", "are", "of", "to", "and", "in", "that", "you"})
        IN  IF c[3] = "auto"
              THEN /\ ret'.language =
                        (IF pt > es /\ pt > en THEN "pt"
                         ELSE IF en > es THEN "en" ELSE "es")
                   /\ (es = 0 /\ pt = 0 /\ en = 0) => ret'.language = "es"
                   /\ (es >= pt /\ es >= en) => ret'.language = "es"
                   /\ (pt = en /\ en > es) => ret'.language = "en"
              ELSE ret'.language = c[3]
    ]_vars

\* auto-detection of a text with one Portuguese and one English marker, the
\* English one in capitals: English
C14_EnglishOnTie ==
  /\ ret.op = "process_message"
  /\ pending[1][3] = "auto"
  /\ pending[1][1].tokens = <<"o", "YOU">>
  /\ ret.language = "en"

\* a call that returned a value to its caller
Returned(r) == "raised" \notin DOMAIN r
\* a step that constructs a guard
ConstructStep == ret'.op = "init" /\ now' = now
\* a stored document is well-formed JSON with every key _load_state reads
Complete(doc) == doc.kind = "json" /\ LoadKeys \subseteq DOMAIN doc.fields

\* the document holds the risk, safety, flags and turn_count of both channels
\* and the two session flags given
C15_Holds(doc, inb, outb, triggered, active) ==
  /\ Complete(doc)
  /\ \A d \in {"inbound", "outbound"} :
        LET ch == IF d = "inbound" THEN inb ELSE outb
        IN  /\ doc.fields[d \o ".risk"] = ch.risk
            /\ doc.fields[d \o ".safety"] = ch.safety
            /\ ToSet(doc.fields[d \o ".flags"]) = ch.flags
            /\ doc.fields[d \o ".turn_count"] = ch.turn_count
  /\ doc.fields["handoff_triggered"] = triggered
  /\ doc.fields["lockdown_active"] = active

\* C15: with a storage target, after every process_message that returns the
\* stored document holds the post-update risk, safety, flags and turn_count of
\* both channels with handoff_triggered (a hand-off of that call included) and
\* lockdown_active; a guard constructed on that document has exactly these
\* values before it processes any message.
C15_SaveAndRestore ==
  [][ /\ (MessageStep /\ Returned(ret') /\ state_file # "None") =>
           C15_Holds(document', inbound', outbound', handoff_triggered',
                     lockdown_active')
      /\ (ConstructStep /\ state_file' # "None" /\ Complete(document')) =>
           /\ C15_Holds(document', inbound', outbound', handoff_triggered',
                        lockdown_active')
           /\ total_messages' = 0
    ]_vars

\* a restarted guard holding a hand-off, a lockdown, flags and turn counts it
\* did not observe itself
C15_RestoredHandoff ==
  /\ ret.op = "init"
  /\ Complete(document)
  /\ handoff_triggered
  /\ lockdown_active
  /\ inbound.flags # {}
  /\ inbound.turn_count > 0
  /\ inbound.history = <<>>
  /\ inbound.risk = CLAMP_HIGH
  /\ total_messages = 0

\* C16: constructing a guard on a storage target whose document is malformed,
\* unreadable or lacks a required field leaves the guard in fresh-session
\* defaults: both channels at risk CLAMP_LOW, safety 1.0, no flags,
\* turn_count 0, handoff_triggered and lockdown_active false.
C16_BadDocumentGivesDefaults ==
  [][ (ConstructStep /\ state_file' # "None" /\ ~Complete(document')) =>
        /\ \A ch \in {inbound', outbound'} :
              /\ ch.risk = CLAMP_LOW
              /\ ch.safety = ONE
              /\ ch.flags = {}
              /\ ch.turn_count = 0
        /\ ~handoff_triggered'
        /\ ~lockdown_active'
    ]_vars

\* C17: process_message always completes and returns a result to its caller,
\* also when the write of the state fails.
C17_AlwaysReturns ==
  ret.op = "process_message" => Returned(ret)

\* the channel of a freshly constructed guard, field by field
C18_FreshChannel(ch) ==
  /\ ch.risk = CLAMP_LOW
  /\ ch.safety = ONE
  /\ ch.velocity = 0
  /\ ch.last_update = 0
  /\ ch.flags = {}
  /\ ch.turn_count = 0
  /\ ch.history = <<>>

\* C18: reset(), from any reachable state, leaves both channels at risk
\* CLAMP_LOW, safety 1.0, velocity 0, last_update 0, no flags, turn_count 0
\* and an empty history, total_messages 0, and handoff_triggered and
\* lockdown_active false: the session state of a freshly constructed guard.
C18_Reset ==
  [][ ResetStep =>
        /\ C18_FreshChannel(inbound')
        /\ C18_FreshChannel(outbound')
        /\ total_messages' = 0
        /\ ~handoff_triggered'
        /\ ~lockdown_active'
        /\ <<inbound', outbound', total_messages', handoff_triggered',
              lockdown_active'>>
             = <<NewChannel, NewChannel, 0, FALSE, FALSE>>
    ]_vars

\* reset after the whole script was sent back to back (the attack had
\* reached the ceiling and set the hand-off flag)
C18_ResetAfterHandoff ==
  /\ ret.op = "reset"
  /\ pending = <<>>
  /\ now = Epoch
  /\ ~handoff_triggered
  /\ inbound.risk = CLAMP_LOW
  /\ total_messages = 0

\* the guard is out of lockdown with both risks still where lockdown put them
C19_ReleasedAtCeiling ==
  /\ ~lockdown_active
  /\ inbound.risk = CLAMP_HIGH
  /\ outbound.risk = CLAMP_HIGH

\* both risks back at the floor, the bilateral level LOW
C19_BackToLow ==
  /\ inbound.risk = CLAMP_LOW
  /\ outbound.risk = CLAMP_LOW
  /\ compute_level(Max(inbound.risk, outbound.risk)) = "LOW"

C20_UpdateFormula ==
  [][ MessageStep =>
        LET before == Chan(ret'.direction, inbound, outbound)
            after == Chan(ret'.direction, inbound', outbound')
            D == compute_risk_delta(ret'.signals)
            elapsed == now - before.last_update
            \* d in tenths
            d == IF before.last_update > 0
                   THEN (IF elapsed >= 10 THEN 10 ELSE elapsed)
                   ELSE 0
            decayed == (before.risk * (100000 - 6180 * d)) \div 100000
            capped == IF decayed + D > CLAMP_HIGH THEN CLAMP_HIGH ELSE decayed + D
            floored == IF capped < CLAMP_LOW THEN CLAMP_LOW ELSE capped
        IN  /\ after.risk = floored
            /\ ret'.channel.risk = floored
            /\ after.velocity = capped - decayed
            /\ ret'.channel.velocity = capped - decayed
    ]_vars

\* a message whose decayed risk fell below the floor: the floor restored the
\* risk, the velocity stayed the delta
C20_FloorAfterVelocity ==
  LET h == inbound.history
      n == Len(h)
  IN  /\ ret.op = "process_message"
      /\ ret.direction = "inbound"
      /\ n >= 2
      /\ h[n].timestamp > h[n - 1].timestamp
      /\ h[n - 1].risk = CLAMP_LOW
      /\ ~handoff_triggered
      /\ ret.channel.risk = CLAMP_LOW
      /\ ret.channel.velocity = compute_risk_delta(ret.signals)

\* C21: in one channel update safety is first eroded by time,
\* max(CLAMP_LOW, safety - PERSISTENT_DECAY x d x 0.1), only if the channel
\* was updated before, and then, only if the delta is > 0, by
\* max(CLAMP_LOW, safety - delta x GAMMA); a zero-delta message with zero
\* elapsed time leaves safety unchanged.
C21_SafetyUpdate ==
  [][ MessageStep =>
        LET before == Chan(ret'.direction, inbound, outbound)
            after == Chan(ret'.direction, inbound', outbound')
            D == compute_risk_delta(ret'.signals)
            elapsed == now - before.last_update
            \* d in tenths
            d == IF elapsed >= 10 THEN 10 ELSE elapsed
            timed == IF before.last_update > 0
                       THEN (IF before.safety - (1030 * d) \div 100 < CLAMP_LOW
                               THEN CLAMP_LOW
                               ELSE before.safety - (1030 * d) \div 100)
                       ELSE before.safety
            eroded == IF D > 0
                        THEN (IF timed - (D * 1030) \div 10000 < CLAMP_LOW
                                THEN CLAMP_LOW
                                ELSE timed - (D * 1030) \div 10000)
                        ELSE timed
        IN  /\ after.safety = eroded
            /\ ret'.channel.safety = eroded
            /\ (D = 0 /\ elapsed = 0) => after.safety = before.safety
    ]_vars

\* a second message some seconds after the first, with signals: safety lost
\* both the time erosion and the erosion of its delta
C21_BothErosions ==
  LET h == inbound.history
      n == Len(h)
  IN  /\ ret.op = "process_message"
      /\ ret.direction = "inbound"
      /\ n >= 2
      /\ h[n].timestamp > h[n - 1].timestamp
      /\ compute_risk_delta(h[n].signals) > 0
      /\ h[n].safety
           < h[n - 1].safety - (compute_risk_delta(h[n].signals) * 1030) \div 10000

\* C22: the signal map holds, per category, min(1.0, 0.2 x total matches)
\* of the resolved language's patterns, raised to max(current, 0.3) when a
\* pattern of another supported language matches; a category nothing
\* matched is absent; every populated strength lies in [0.2, 1.0].
C22_SignalMap ==
  (ret.op = "process_message" /\ Len(pending) = 1) =>
    LET text == pending[1][1]
        primary(c) ==
          IF 2 * HitCount(text, ret.language, c) > 10
            THEN 10 ELSE 2 * HitCount(text, ret.language, c)
        elsewhere(c) ==
          \E l \in {"es", "en", "pt"} \ {ret.language} : HitCount(text, l, c) > 0
        expected(c) == IF elsewhere(c) /\ primary(c) < 3 THEN 3 ELSE primary(c)
    IN  \A c \in CategorySet :
           /\ c \in DOMAIN ret.signals <=> expected(c) > 0
           /\ c \in DOMAIN ret.signals =>
                 /\ ret.signals[c] = expected(c)
                 /\ ret.signals[c] >= 2
                 /\ ret.signals[c] <= 10

\* one category saturated at 1.0 and left there by the cross-language pass,
\* the other raised from 0.2 to 0.3 by it
C22_RaisedAndSaturated ==
  /\ ret.op = "process_message"
  /\ Len(pending) = 1
  /\ ret.language = "es"
  /\ DOMAIN ret.signals = {"fear", "urgency"}
  /\ HitCount(pending[1][1], "es", "fear") = MaxHits
  /\ HitCount(pending[1][1], "en", "fear") > 0
  /\ ret.signals["fear"] = 10
  /\ HitCount(pending[1][1], "es", "urgency") = 1
  /\ ret.signals["urgency"] = 3

\* C23: the flags of a message are exactly those whose strict thresholds
\* its signal map passes (love_bombing: flattery > 0.3 and isolation > 0.2;
\* fear_mongering: fear > 0.4 and urgency > 0.3; authority_coercion:
\* authority > 0.3 and coercion > 0.3; isolation_attempt: isolation > 0.4;
\* disinfo_detected: misinformation > 0.4; surrender_pressure:
\* surrender > 0.3); a strength equal to its threshold raises nothing.
C23_Flags ==
  (ret.op = "process_message" /\ "signals" \in DOMAIN ret) =>
    LET s(c) == IF c \in DOMAIN ret.signals THEN ret.signals[c] ELSE 0
        raised == {ret.flags[i] : i \in 1..Len(ret.flags)}
    IN  /\ "love_bombing" \in raised <=> (s("flattery") > 3 /\ s("isolation") > 2)
        /\ "fear_mongering" \in raised <=> (s("fear") > 4 /\ s("urgency") > 3)
        /\ "authority_coercion" \in raised <=> (s("authority") > 3 /\ s("coercion") > 3)
        /\ "isolation_attempt" \in raised <=> s("isolation") > 4
        /\ "disinfo_detected" \in raised <=> s("misinformation") > 4
        /\ "surrender_pressure" \in raised <=> s("surrender") > 3
        /\ raised \subseteq {"love_bombing", "fear_mongering", "authority_coercion",
                              "isolation_attempt", "disinfo_detected",
                              "surrender_pressure"}
        /\ Len(ret.flags) = Cardinality(raised)

\* flattery exactly at 0.3 beside a strong isolation signal: isolation_attempt
\* alone is raised
C23_AtThreshold ==
  /\ ret.op = "process_message"
  /\ "signals" \in DOMAIN ret
  /\ DOMAIN ret.signals = {"flattery", "isolation"}
  /\ ret.signals["flattery"] = 3
  /\ ret.signals["isolation"] = 6
  /\ ret.flags = <<"isolation_attempt">>

\* C24: process_message changes only the channel its direction addresses:
\* that channel's turn_count grows by 1 and its history gains one snapshot,
\* while the other channel's risk, safety, velocity, last_update, flags,
\* turn_count and history stay as they were.
C24_OtherChannelKept ==
  [][ MessageStep =>
        LET addressed == Chan(ret'.direction, inbound, outbound)
            addressed_after == Chan(ret'.direction, inbound', outbound')
            other == Chan(ret'.direction, outbound, inbound)
            other_after == Chan(ret'.direction, outbound', inbound')
        IN  /\ addressed_after.turn_count = addressed.turn_count + 1
            /\ Len(addressed_after.history) = Len(addressed.history) + 1
            /\ \A f \in {"risk", "safety", "velocity", "last_update", "flags",
                          "turn_count", "history"} : other_after[f] = other[f]
    ]_vars

\* an outbound message processed later than the inbound channel's last
\* message, which left that channel with flags and history
C24_OutboundAfterInbound ==
  /\ ret.op = "process_message"
  /\ ret.direction = "outbound"
  /\ outbound.turn_count = 1
  /\ inbound.turn_count = 1
  /\ inbound.flags # {}
  /\ inbound.risk > CLAMP_LOW
  /\ inbound.last_update < outbound.last_update

\* C25: a channel's history never holds more than 100 snapshots; its length
\* is min(100, messages the channel processed since construction or reset),
\* the snapshots are in processing order with turns increasing by 1, the
\* last one carries turn_count and the risk and safety the update left, and
\* on overflow exactly the oldest snapshot is dropped.
C25_History ==
  /\ [](\A ch \in {inbound, outbound} :
          LET h == ch.history
          IN  /\ Len(h) <= 100
              /\ Len(h) = (IF ch.turn_count < 100 THEN ch.turn_count ELSE 100)
              /\ \A i \in 1..(Len(h) - 1) :
                    /\ h[i + 1].turn = h[i].turn + 1
                    /\ h[i + 1].timestamp >= h[i].timestamp
              /\ Len(h) > 0 => h[Len(h)].turn = ch.turn_count)
  /\ [][ MessageStep =>
           LET before == Chan(ret'.direction, inbound, outbound).history
               after == Chan(ret'.direction, inbound', outbound').history
               last == after[Len(after)]
           IN  /\ last.risk = Chan(ret'.direction, inbound', outbound').risk
               /\ last.safety = Chan(ret'.direction, inbound', outbound').safety
               /\ last.risk = ret'.channel.risk
               /\ last.safety = ret'.channel.safety
               /\ IF Len(before) < 100
                    THEN SubSeq(after, 1, Len(after) - 1) = before
                    ELSE SubSeq(after, 1, Len(after) - 1) = Tail(before)
       ]_vars

\* the inbound channel after its 101st message: 100 snapshots, the first of
\* them the one of turn 2
C25_Overflowed ==
  /\ ret.op = "process_message"
  /\ ret.direction = "inbound"
  /\ inbound.turn_count = 101
  /\ Len(inbound.history) = 100
  /\ inbound.history[1].turn = 2
  /\ inbound.history[100].turn = 101

\* the marker scores of the text have no strict winner
C26_Tie(text) ==
  ~ \/ text.es > text.pt /\ text.es > text.en
    \/ text.pt > text.es /\ text.pt > text.en
    \/ text.en > text.es /\ text.en > text.pt

\* C26 as stated: when automatic detection finds no strict winner among the
\* three marker scores (zero overlap included) the language resolved is the
\* guard's configured primary_language.
C26_TieGivesPrimary ==
  (ret.op = "process_message" /\ Len(pending) = 1 /\ pending[1][3] = "auto"
     /\ C26_Tie(pending[1][1]))
    => ret.language = primary_language

\* C26 as the code has it: when automatic detection finds no strict winner
\* the language resolved does not depend on primary_language; it is English
\* when the English score exceeds the Spanish one (pt = en > es) and Spanish
\* otherwise.
C26_TieGivesSpanish ==
  (ret.op = "process_message" /\ Len(pending) = 1 /\ pending[1][3] = "auto"
     /\ C26_Tie(pending[1][1]))
    => ret.language = (IF pending[1][1].en > pending[1][1].es THEN "en" ELSE "es")

\* a guard configured for Portuguese resolves a text without any marker word
\* to Spanish
C26_PortugueseNodeGetsSpanish ==
  /\ ret.op = "process_message"
  /\ Len(pending) = 1
  /\ pending[1][3] = "auto"
  /\ pending[1][1].tokens = <<"maiz">>
  /\ primary_language = "pt"
  /\ ret.language = "es"

\* the threads whose call went through guard.process_message for a direction
C27_Completed(dir) ==
  {t \in DOMAIN threads :
     /\ threads[t].pc \in {"returned", "done"}
     /\ ~threads[t].killed
     /\ threads[t].call.direction = dir}

\* the risk delta of a thread's message
C27_Delta(t) ==
  compute_risk_delta(
    analyze_signals(threads[t].call.text,
                    ResolvedLanguage(threads[t].call.text, threads[t].call.language)).signals)

RECURSIVE C27_Sum(_)
C27_Sum(ts) ==
  IF ts = {} THEN 0
  ELSE LET t == CHOOSE x \in ts : TRUE IN C27_Delta(t) + C27_Sum(ts \ {t})

\* no thread is inside guard.process_message
C27_Quiet == \A t \in DOMAIN threads : threads[t].pc \notin InGuard

\* C27: calls serialized behind one lock never lose an update: whenever no
\* call is in progress, total_messages is the number of completed calls and
\* each channel's turn_count, history length and risk are those of its
\* completed calls; without the lock the counters never exceed the number of
\* calls begun (and can end below the number completed).
C27_SerializedNeverLose ==
  (threads # <<>> /\ C27_Quiet) =>
    LET n_in == Cardinality(C27_Completed("inbound"))
        n_out == Cardinality(C27_Completed("outbound"))
    IN  /\ total_messages <= n_in + n_out
        /\ inbound.turn_count <= n_in
        /\ outbound.turn_count <= n_out
        /\ (\A t \in DOMAIN threads : ViaBridge(threads[t].call)) =>
              /\ total_messages = n_in + n_out
              /\ inbound.turn_count = n_in
              /\ outbound.turn_count = n_out
              /\ Len(inbound.history) = n_in
              /\ Len(outbound.history) = n_out
              /\ inbound.risk = CLAMP_LOW + C27_Sum(C27_Completed("inbound"))
              /\ outbound.risk = CLAMP_LOW + C27_Sum(C27_Completed("outbound"))

\* two calls made straight to the guard for the inbound channel, both
\* returned: one message counted, one turn, the risk of one message
C27_LostUpdate ==
  /\ threads # <<>>
  /\ \A t \in DOMAIN threads :
        threads[t].pc = "done" /\ threads[t].call.entry = "guard"
           /\ threads[t].call.direction = "inbound"
  /\ total_messages = 1
  /\ inbound.turn_count = 1
  /\ Len(inbound.history) = 2
  /\ inbound.risk = CLAMP_LOW + 750

\* C28: every guard.process_message call the mesh bridge makes (from
\* process_inbound, process_outbound, and send_inventory through
\* process_outbound) runs while the calling thread holds the bridge's lock,
\* so no two guard updates made through the bridge overlap.
C28_BridgeHoldsLock ==
  /\ \A t \in DOMAIN threads :
        (ViaBridge(threads[t].call) /\ threads[t].pc \in InGuard) => lock = t
  /\ \A t1, t2 \in DOMAIN threads :
        (/\ t1 # t2
         /\ ViaBridge(threads[t1].call) /\ threads[t1].pc \in InGuard
         /\ ViaBridge(threads[t2].call))
          => threads[t2].pc \notin InGuard

\* the receive thread is inside the guard, between the read and the write of
\* turn_count, while the send thread waits with an inventory message
C28_SenderWaits ==
  /\ threads # <<>>
  /\ threads["recv"].call.entry = "process_inbound"
  /\ threads["recv"].pc = "turn_read"
  /\ lock = "recv"
  /\ threads["send"].call.entry = "send_inventory"
  /\ threads["send"].pc = "idle"
  /\ ~ENABLED Enter

\* C29: velocity_exceeded is false for every message the guard processes:
\* harm and manipulation are never in the signal map and a coercion strength
\* is at most 1.0, so strength x 0.3 stays below the 0.45 cap; the handoff
\* returned is true exactly when the bilateral risk is >= CLAMP_HIGH.
C29_HandoffIsCeiling ==
  (ret.op = "process_message" /\ "signals" \in DOMAIN ret) =>
    /\ "harm" \notin DOMAIN ret.signals
    /\ "manipulation" \notin DOMAIN ret.signals
    /\ "coercion" \in DOMAIN ret.signals =>
          /\ ret.signals["coercion"] <= 10
          /\ 3 * ret.signals["coercion"] < 45
    /\ ~VelocityExceeded(ret.signals)
    /\ ret.handoff <=> ret.bilateral.risk >= 8970

\* a message with coercion at full strength on a guard at the baseline: no
\* hand-off
C29_FullCoercion ==
  /\ ret.op = "process_message"
  /\ "signals" \in DOMAIN ret
  /\ "coercion" \in DOMAIN ret.signals
  /\ ret.signals["coercion"] = 10
  /\ ret.bilateral.risk < 8970
  /\ ~ret.handoff

\* the message of this step leaves the risk of channel dir without decay: it
\* addresses the other channel, or dir was never updated, or no time has
\* passed since its update
C30_NoDecay(dir) ==
  \/ ret'.direction # dir
  \/ Chan(dir, inbound, outbound).last_update = 0
  \/ now = Chan(dir, inbound, outbound).last_update

\* C30: time decay touches only the channel a message addresses, so a channel
\* without messages keeps its risk however much time passes; hence after
\* trigger_lockdown, released or not, every process_message returns CRITICAL
\* with handoff true and sets handoff_triggered for as long as one channel
\* has not processed a message a positive time after its previous update:
\* trigger_lockdown puts both risks at CLAMP_HIGH, a risk leaves CLAMP_HIGH
\* only by such a message (or reset), and a message that leaves one risk at
\* CLAMP_HIGH without decay reports CRITICAL.
C30_CeilingPersists ==
  [][ /\ MessageStep =>
           Chan(ret'.direction, outbound', inbound').risk
             = Chan(ret'.direction, outbound, inbound).risk
      /\ (~MessageStep /\ ~TriggerStep /\ ~ResetStep) =>
           inbound'.risk = inbound.risk /\ outbound'.risk = outbound.risk
      /\ TriggerStep => inbound'.risk = 8970 /\ outbound'.risk = 8970
      /\ \A dir \in {"inbound", "outbound"} :
           /\ (Chan(dir, inbound, outbound).risk = 8970
                  /\ Chan(dir, inbound', outbound').risk # 8970)
                => \/ ResetStep
                   \/ MessageStep /\ ~C30_NoDecay(dir)
           /\ (MessageStep /\ Chan(dir, inbound, outbound).risk = 8970
                  /\ C30_NoDecay(dir))
                => /\ ret'.level = "CRITICAL"
                   /\ ret'.handoff
                   /\ handoff_triggered'
    ]_vars

\* after lockdown and release the inbound channel has decayed below the
\* ceiling; the outbound channel has had its first message only, and the
\* inbound message still reports CRITICAL and hand-off
C30_StillCritical ==
  /\ ret.op = "process_message"
  /\ ret.direction = "inbound"
  /\ ~lockdown_active
  /\ inbound.turn_count >= 2
  /\ inbound.risk < CLAMP_HIGH
  /\ outbound.turn_count = 1
  /\ outbound.risk = CLAMP_HIGH
  /\ outbound.last_update < now
  /\ ret.level = "CRITICAL"
  /\ ret.handoff
  /\ handoff_triggered

\* C31: within a session, the clock never going back, no process_message,
\* trigger_lockdown or release_lockdown (nor the passing of time or
\* get_status) raises a channel's safety; only reset() brings it back.
C31_SafetyNeverRises ==
  [][ /\ ~ResetStep =>
           /\ inbound'.safety <= inbound.safety
           /\ outbound'.safety <= outbound.safety
      /\ (ResetStep /\ ret.op # "reset") =>
           /\ inbound'.safety = 10000
           /\ outbound'.safety = 10000
      /\ now' >= now
    ]_vars

\* the inbound channel lost trust to a message with signals and some more to
\* a clean message that came seconds later; a lockdown, since released, has
\* raised its risk and left its safety
C31_TrustLostTwice ==
  /\ ret.op = "release_lockdown"
  /\ ~lockdown_active
  /\ Len(inbound.history) = 2
  /\ inbound.history[1].safety < 10000
  /\ inbound.history[2].signals = <<>>
  /\ inbound.history[2].safety < inbound.history[1].safety
  /\ inbound.safety = inbound.history[2].safety
  /\ inbound.risk > inbound.history[2].risk

\* C32: last_update is 0 until a channel's first message and is not in the
\* persisted document, so the first message a channel processes after
\* construction, after reset or after a restore applies no time decay to risk
\* or safety however much time has passed: the risk becomes
\* max(CLAMP_LOW, min(CLAMP_HIGH, risk + delta)) and safety loses only the
\* erosion of the delta.
C32_FirstMessageNoDecay ==
  /\ [](\A ch \in {inbound, outbound} : ch.last_update = 0 <=> ch.history = <<>>)
  /\ [][ /\ (ConstructStep \/ ResetStep) =>
               /\ inbound'.last_update = 0
               /\ outbound'.last_update = 0
         /\ (MessageStep /\ Returned(ret')
                /\ Chan(ret'.direction, inbound, outbound).history = <<>>) =>
              LET before == Chan(ret'.direction, inbound, outbound)
                  after == Chan(ret'.direction, inbound', outbound')
                  D == compute_risk_delta(ret'.signals)
                  raised == IF before.risk + D > 8970 THEN 8970 ELSE before.risk + D
                  eroded == IF before.safety - (D * 1030) \div 10000 < 1030
                              THEN 1030 ELSE before.safety - (D * 1030) \div 10000
              IN  /\ after.risk = (IF raised < 1030 THEN 1030 ELSE raised)
                  /\ after.safety = (IF D > 0 THEN eroded ELSE before.safety)
        ]_vars

\* a guard restored with the inbound risk at the ceiling processes a clean
\* inbound message seconds after its restart: the risk is still at the ceiling
C32_RestoredCeilingKept ==
  /\ ret.op = "process_message"
  /\ Returned(ret)
  /\ ret.direction = "inbound"
  /\ ret.signals = <<>>
  /\ Len(inbound.history) = 1
  /\ inbound.turn_count = 2
  /\ now > session_start
  /\ ~lockdown_active
  /\ ret.channel.risk = CLAMP_HIGH

\* C33: only process_message writes the persisted document;
\* trigger_lockdown, release_lockdown and reset leave it as it is, so a guard
\* constructed on the same file right after one of them restores what the
\* last process_message saved (lockdown_active false after a
\* trigger_lockdown; the risk, flags and handoff_triggered from before a
\* reset).
C33_OnlyMessagesSave ==
  [][ /\ document' # document => MessageStep
      /\ (TriggerStep \/ ReleaseStep \/ ResetStep) => document' = document
      /\ (MessageStep /\ Returned(ret')) =>
           /\ document'.kind = "json"
           /\ document'.fields["lockdown_active"] = lockdown_active'
           /\ document'.fields["handoff_triggered"] = handoff_triggered'
           /\ document'.fields["inbound.risk"] = inbound'.risk
           /\ document'.fields["outbound.risk"] = outbound'.risk
      /\ (ConstructStep /\ document.kind = "json") =>
           /\ lockdown_active' = document.fields["lockdown_active"]
           /\ handoff_triggered' = document.fields["handoff_triggered"]
           /\ \A dir \in {"inbound", "outbound"} :
                LET ch == Chan(dir, inbound', outbound')
                IN  /\ ch.risk = document.fields[dir \o ".risk"]
                    /\ ch.safety = document.fields[dir \o ".safety"]
                    /\ ch.turn_count = document.fields[dir \o ".turn_count"]
                    /\ ch.flags = ToSet(document.fields[dir \o ".flags"])
    ]_vars

\* a guard just reset, its channels and flags at their defaults, while the
\* file still holds the hand-off, the flags and the risk of the session that
\* the reset ended
C33_ResetLeavesFile ==
  /\ ret.op = "reset"
  /\ inbound = NewChannel
  /\ ~handoff_triggered
  /\ document.kind = "json"
  /\ document.fields["handoff_triggered"]
  /\ document.fields["inbound.flags"] # <<>>
  /\ document.fields["inbound.risk"] = CLAMP_HIGH
  /\ document.fields["saved_at"] < now

\* a step in which a channel took a message: its history gained a snapshot
C34_Processed ==
  \/ Len(inbound'.history) = Len(inbound.history) + 1
  \/ Len(outbound'.history) = Len(outbound.history) + 1

\* C34: for a guard constructed without restored state, after any sequence
\* of process_message, trigger_lockdown, release_lockdown and reset calls,
\* total_messages equals inbound.turn_count + outbound.turn_count and is the
\* number of process_message calls since construction or the last reset: it
\* starts at 0, reset puts it back to 0, every processed message adds 1 and
\* nothing else changes it.
C34_MessageCount ==
  /\ total_messages = 0
  /\ [](total_messages = inbound.turn_count + outbound.turn_count)
  /\ [][ /\ C34_Processed => total_messages' = total_messages + 1
         /\ ResetStep => total_messages' = 0
         /\ (~C34_Processed /\ ~ResetStep) => total_messages' = total_messages
       ]_vars

\* a session begun by a reset some seconds after construction, one message
\* in each direction since; the outbound channel had its message at the
\* ceiling of a lockdown
C34_TwoSinceReset ==
  /\ session_start > Epoch
  /\ total_messages = 2
  /\ inbound.turn_count = 1
  /\ outbound.turn_count = 1
  /\ outbound.history[1].risk = CLAMP_HIGH
  /\ ret.op = "process_message"

\* C35: from a fresh guard on which trigger_lockdown is never called no
\* hand-off occurs before the third message of one direction: after one or
\* two process_message calls the bilateral risk is below CLAMP_HIGH (at most
\* CLAMP_LOW + 2 x 0.3) and handoff_triggered is false.
C35_NoEarlyHandoff ==
  /\ \A ch \in {inbound, outbound} :
        ch.turn_count <= 2 => ch.risk <= 1030 + 2 * 3000 /\ ch.risk < 8970
  /\ total_messages <= 2 =>
        /\ (IF inbound.risk > outbound.risk THEN inbound.risk ELSE outbound.risk) < 8970
        /\ ~handoff_triggered
        /\ ret.op = "process_message" => ~ret.handoff /\ ret.level # "CRITICAL"
  /\ handoff_triggered => inbound.turn_count >= 3 \/ outbound.turn_count >= 3

\* two saturated inbound messages at the same instant: the risk is at
\* CLAMP_LOW + 0.6, the level HIGH, and nothing is handed off
C35_TwoAtTheCap ==
  /\ ret.op = "process_message"
  /\ total_messages = 2
  /\ inbound.turn_count = 2
  /\ inbound.risk = 7030
  /\ ret.level = "HIGH"
  /\ ~ret.handoff
  /\ ~handoff_triggered

\* C36: a message whose signals come only from cross-language leakage (no
\* pattern of the resolved language matches, patterns of other languages do)
\* has every populated strength at exactly 0.3 and raises no flag, every
\* flag's first threshold being a strict comparison at 0.3 or 0.4; it still
\* adds a positive risk delta.
C36_LeakageRaisesNoFlag ==
  (/\ ret.op = "process_message"
   /\ Len(pending) = 1
   /\ pending[1][1].hits # {}
   /\ \A h \in pending[1][1].hits : h[1] # ret.language)
    => /\ DOMAIN ret.signals = {h[2] : h \in pending[1][1].hits}
       /\ \A c \in DOMAIN ret.signals : ret.signals[c] = 3
       /\ ret.flags = <<>>
       /\ compute_risk_delta(ret.signals) > 0
       /\ ~lockdown_active => /\ ret.channel.velocity > 0
                               /\ ret.channel.risk > 1030

\* a text full of Spanish flattery and isolation phrases analysed as
\* English: both strengths 0.3, no flag, and the risk has risen
C36_SpanishReadAsEnglish ==
  /\ ret.op = "process_message"
  /\ Len(pending) = 1
  /\ pending[1][3] = "en"
  /\ pending[1][1].hits = {<<"es", "flattery", MaxHits>>, <<"es", "isolation", MaxHits>>}
  /\ ret.language = "en"
  /\ ret.signals["flattery"] = 3
  /\ ret.signals["isolation"] = 3
  /\ ret.flags = <<>>
  /\ ret.channel.risk > CLAMP_LOW

\* C37: KillSwitch.trigger runs the sanitizer only after verify_panic has
\* succeeded: with an admin key configured, a panic code that is unknown,
\* unsigned, or whose signature is invalid, unverifiable or made by another
\* key never causes sanitization: trigger returns None, nothing is erased,
\* and a message carrying the code is analysed like any other.
C37_OnlyVerifiedPanicErases ==
  [][ /\ (kill_switch' # kill_switch \/ (document' = NoDocument /\ document # NoDocument)) =>
           /\ ret'.op \in {"trigger", "process_inbound"}
           /\ ret'.report # "None"
           /\ ret'.panic_code \in {"XKILL", "xkill"}
           /\ kill_switch.admin_key_id # "None" =>
                 ret'.signature = "admin" /\ kill_switch.gpg
      /\ (/\ kill_switch.admin_key_id # "None"
          /\ ret' # ret
          /\ ret'.op = "trigger"
          /\ \/ ret'.panic_code = "HELLO"
             \/ ret'.signature \in {"None", "", "admin_stale", "other", "garbage",
                                     "unverifiable"}
             \/ ~kill_switch.gpg) =>
           /\ ret'.report = "None"
           /\ kill_switch' = kill_switch
           /\ document' = document
    ]_vars

\* with an admin key configured, a known code signed by another key has just
\* been refused: nothing has been sanitized, the state file is still there
C37_OtherKeyRefused ==
  /\ kill_switch # <<>>
  /\ kill_switch.admin_key_id = AdminKey
  /\ kill_switch.gpg
  /\ ret.op = "trigger"
  /\ ret.panic_code = "XKILL"
  /\ ret.signature = "other"
  /\ ret.report = "None"
  /\ kill_switch.sanitized = 0
  /\ document.kind = "json"

\* C38: every record accepted by OrbitDBSync.add_inventory is in the local
\* cache and is either posted or in the pending-writes queue, also while
\* add_inventory runs concurrently with the background sync thread.
C38_AcceptedRecordKept ==
  orbit # <<>> =>
    \A record \in orbit.accepted :
       /\ record \in orbit.local_cache
       /\ \/ record \in orbit.posted
          \/ \E k \in 1..Len(orbit.pending_writes) : orbit.pending_writes[k] = record

\* C39: every delta passed to StarlinkBridge.add_delta is at all times either
\* still in the pending queue or in a successfully published payload, also
\* when it is added while a sync cycle is in progress.
C39_DeltaQueuedOrPublished ==
  starlink # <<>> =>
    \A delta \in starlink.added :
       \/ delta \in starlink.published
       \/ \E k \in 1..Len(starlink.pending_deltas) : starlink.pending_deltas[k] = delta

\* C40: the wait of the Starlink bridge loop starts at CHECK_INTERVAL, becomes
\* sync_interval after a successful cycle and min(2 x previous, BACKOFF_MAX)
\* after a failed or raising cycle; with sync_interval <= BACKOFF_MAX it never
\* exceeds BACKOFF_MAX.
C40_Backoff ==
  /\ [](starlink # <<>> =>
          /\ starlink.last_cycle = "None" => starlink.backoff = 30
          /\ starlink.sync_interval <= 3600 => starlink.backoff <= 3600)
  /\ [][ /\ starlink.backoff' # starlink.backoff => starlink.pc' = "sleep"
         /\ (starlink.pc # "sleep" /\ starlink.pc' = "sleep") =>
              \/ /\ starlink.last_cycle' = "True"
                 /\ starlink.backoff' = starlink.sync_interval
              \/ /\ starlink.last_cycle' \in {"False", "raised"}
                 /\ starlink.backoff' = 2 * starlink.backoff
                 /\ 2 * starlink.backoff <= 3600
              \/ /\ starlink.last_cycle' \in {"False", "raised"}
                 /\ starlink.backoff' = 3600
                 /\ 2 * starlink.backoff >= 3600
    ]_vars

\* the loop sleeps the longest wait after a failed cycle whose doubling was cut
C40_AtTheCeiling ==
  /\ starlink # <<>>
  /\ starlink.sync_interval = 300
  /\ starlink.pc = "sleep"
  /\ starlink.last_cycle = "False"
  /\ starlink.backoff = 3600
  /\ starlink.published # {}

====
